---- MODULE Spec2Model ----
(***************************************************************************)
(* A model of the RESP key/value server: the store (src/src/store.rs), the *)
(* command layer (src/src/commands/), the actor task and the connection    *)
(* tasks (src/src/main.rs).                                                *)
(***************************************************************************)
EXTENDS Integers, Sequences, FiniteSets, TLC

(***************************************************************************)
(* Bounds of the model.                                                    *)
(***************************************************************************)
\* requests the clients write to their sockets, all together
MaxCmds == 3
\* the same where a client that blocks late meets clients that blocked early
MaxOvertakeCmds == 4
\* complete requests one socket write of a client may carry
MaxPipeline == 2
\* requests the clients write when the actor's messages are recorded
MaxSerialCmds == 3
\* requests the clients write when they block on streams
MaxXreadCmds == 3
\* commands the actor alone is given: on strings, lists and streams
MaxStoreCmds == 3
\* XADD commands the actor alone is given on one stream
MaxStreamCmds == 3
\* milliseconds the clock advances
MaxClock == 2
\* commands the actor alone is given on one list
MaxListCmds == 3
\* commands the actor alone is given from the whole command table
MaxTableCmds == 2
\* commands of the clients of SpecKeys
MaxKeyCmds == 3
\* requests of the clients of SpecErrors
MaxErrorCmds == 2
\* requests of the clients of SpecWaiters
MaxWaiterCmds == 3
\* requests of the clients of SpecCleanup
MaxCleanupCmds == 3
\* requests of the clients of SpecMulti
MaxMultiCmds == 3
\* requests of the clients of SpecHints
MaxHintCmds == 3
\* requests of the clients of SpecRange
MaxRangeCmds == 3
\* requests of the clients of SpecAnswering
MaxAnswerCmds == 2
\* requests of the clients of SpecBlocking
MaxBlockingCmds == 2
\* XADDs of the clients of SpecIds
MaxIdCmds == 3
\* bytes of a simple string or bulk string a peer of the codec encodes
MaxPayload == 2
\* elements of an array a peer of the codec encodes
MaxArrayLen == 2
\* requests a peer pipelines
MaxFrames == 2
\* calls of parse_resp on one buffer
MaxDecodes == 2
\* the model's stand-in for i128::MAX, 2^127 - 1: the integers of the model
\* are i128 values scaled down to -(I128Max + 1) .. I128Max
I128Max == 100
\* the model's stand-in for u128::MAX, 2^128 - 1: above every expiry the
\* numbers the model parses give, below a thousand times itself
U128Max == 10000

\* capacity of the actor's mpsc channel
ChannelCapacity == 128

Conns == {"c1", "c2", "c3"}

(***************************************************************************)
(* HashMap<K, V> as a function whose domain is the set of keys present.    *)
(***************************************************************************)
EmptyMap == <<>>
Insert(m, k, v) == [x \in (DOMAIN m) \cup {k} |-> IF x = k THEN v ELSE m[x]]
Remove(m, k) == [x \in (DOMAIN m) \ {k} |-> m[x]]
Has(m, k) == k \in DOMAIN m

(***************************************************************************)
(* RedisType (parser.rs): the `type` field is the enum variant.            *)
(***************************************************************************)
SimpleString(s) == [type |-> "SimpleString", val |-> <<s>>]
SimpleError(s) == [type |-> "SimpleError", val |-> <<s>>]
BulkString(b) == [type |-> "BulkString", val |-> <<b>>]
Integer(n) == [type |-> "Integer", val |-> <<n>>]
NullBulkString == [type |-> "NullBulkString", val |-> <<>>]
Array(items) == [type |-> "Array", val |-> items]
NullArray == [type |-> "NullArray", val |-> <<>>]

(***************************************************************************)
(* Result<T, E> and Option<T>.                                             *)
(***************************************************************************)
Ok(v) == [ok |-> TRUE, v |-> <<v>>]
Err(e) == [ok |-> FALSE, v |-> <<e>>]
Some(v) == <<v>>
None == <<>>

\* CommandError (commands/mod.rs:24-28); the actor prints it with {:?}
InvalidInput(msg) == <<"InvalidInput", msg>>
UnknownCommand(msg) == <<"UnknownCommand", msg>>

(***************************************************************************)
(* str::parse on the decimal texts the model's commands carry.  Any other  *)
(* text is not a number of the type.                                       *)
(***************************************************************************)
parse_i128(str) ==
    CASE str = "170141183460469231731687303715884105727" -> Some(I128Max)
      [] str = "-170141183460469231731687303715884105728" -> Some(0 - I128Max - 1)
      [] str = "-4" -> Some(0 - 4)
      [] str = "-3" -> Some(0 - 3)
      [] str = "-2" -> Some(0 - 2)
      [] str = "-1" -> Some(0 - 1)
      [] str = "0" -> Some(0)
      [] str = "1" -> Some(1)
      [] str = "2" -> Some(2)
      [] str = "3" -> Some(3)
      [] str = "4" -> Some(4)
      [] OTHER -> None

\* i128 addition as a release build does it: the sum wraps around
wrapping_add(a, b) ==
    LET sum == a + b
        modulus == 2 * I128Max + 2
    IN IF sum > I128Max THEN sum - modulus
       ELSE IF sum < 0 - I128Max - 1 THEN sum + modulus
       ELSE sum

\* the sum does not fit an i128: a build with overflow checks panics here
add_overflows(a, b) == a + b > I128Max \/ a + b < 0 - I128Max - 1

parse_u128(str) ==
    CASE str = "340282366920938463463374607431768211455" -> Some(U128Max)
      [] str = "0" -> Some(0)
      [] str = "1" -> Some(1)
      [] str = "2" -> Some(2)
      [] str = "3" -> Some(3)
      [] OTHER -> None

\* u128 arithmetic of a build without overflow checks
wrapping_u128(n) == n % (U128Max + 1)
\* the value does not fit a u128: a build with overflow checks panics here
u128_overflows(n) == n > U128Max

\* f64 seconds; the model's timeouts are whole seconds
parse_f64(str) ==
    CASE str = "-1" -> Some(0 - 1)
      [] str = "0" -> Some(0)
      [] str = "1" -> Some(1)
      [] OTHER -> None

(***************************************************************************)
(* commands/utils.rs                                                       *)
(***************************************************************************)
argument_as_bytes(arguments, index) ==
    IF index + 1 <= Len(arguments)
       /\ arguments[index + 1].type \in {"BulkString", "SimpleString"}
    THEN Ok(arguments[index + 1].val[1])
    ELSE Err(InvalidInput("Invalid argument: Must be a bulkstring"))

extract_key(arguments) == argument_as_bytes(arguments, 0)

argument_as_str(arguments, index) ==
    IF index + 1 <= Len(arguments) /\ arguments[index + 1].type = "BulkString"
    THEN Ok(arguments[index + 1].val[1])
    ELSE Err(InvalidInput("Invalid argument: Must be a bulkstring"))

argument_as_i128(arguments, index) ==
    LET str == argument_as_str(arguments, index) IN
    IF ~str.ok THEN str
    ELSE IF parse_i128(str.v[1]) = None
         THEN Err(InvalidInput("Unable to parse argument to a number"))
         ELSE Ok(parse_i128(str.v[1])[1])

argument_as_u128(arguments, index) ==
    LET str == argument_as_str(arguments, index) IN
    IF ~str.ok THEN str
    ELSE IF parse_u128(str.v[1]) = None
         THEN Err(InvalidInput("Unable to parse argument to a number"))
         ELSE Ok(parse_u128(str.v[1])[1])

argument_as_f64(arguments, index) ==
    LET str == argument_as_str(arguments, index) IN
    IF ~str.ok THEN str
    ELSE IF parse_f64(str.v[1]) = None
         THEN Err(InvalidInput("Unable to parse argument to a number"))
         ELSE Ok(parse_f64(str.v[1])[1])

(***************************************************************************)
(* The store (store.rs).  A store value `s` is the record                  *)
(*   key_types, streams, keys, lists, blpop_waiting_queue   (struct Store) *)
(*   xread_waiting_clients                  (the XREAD BLOCK registry)     *)
(*   NEXT_CLIENT_ID                         (the static counter)           *)
(*   channel      (the one-shot channels whose senders the waiters hold)   *)
(* A one-shot channel is [value, receiver]: the value sent, if any, and    *)
(* whether the receiving half still exists.                                *)
(***************************************************************************)
NewChannel == [value |-> None, receiver |-> TRUE]

\* oneshot::Sender::send: fails when the receiver was dropped
send_is_ok(s, identifier) == s.channel[identifier].receiver

SeqTail(seq, n) == SubSeq(seq, n + 1, Len(seq))
\* a push that would keep the order of its values
keep_order(seq) == seq

\* Vec::reverse
Reverse(seq) == [i \in 1..Len(seq) |-> seq[Len(seq) + 1 - i]]

\* a queue that would serve the waiter that registered last
pop_back(queue) ==
    [client |-> queue[Len(queue)], rest |-> SubSeq(queue, 1, Len(queue) - 1)]

\* VecDeque::pop_front on a non-empty queue
pop_front(queue) == [client |-> Head(queue), rest |-> Tail(queue)]

\* a wake-up that would put the element back when the send fails
notify_keeping_element(s, key) ==
    IF ~Has(s.blpop_waiting_queue, key) THEN s
    ELSE IF ~Has(s.lists, key) THEN s
    ELSE IF s.lists[key] = <<>> THEN s
    ELSE
      LET queue == s.blpop_waiting_queue[key]
          list == s.lists[key]
      IN
      IF queue # <<>>
      THEN
        LET waiting_client == pop_front(queue).client
            remaining == pop_front(queue).rest
            response == Array(<<BulkString(key), BulkString(Head(list))>>)
            popped == [s EXCEPT !.blpop_waiting_queue[key] = remaining]
        IN
        IF send_is_ok(s, waiting_client)
        THEN [popped EXCEPT !.channel[waiting_client].value = Some(response),
                            !.lists[key] = Tail(list)]
        ELSE IF remaining = <<>>
             THEN [popped EXCEPT !.blpop_waiting_queue =
                                    Remove(popped.blpop_waiting_queue, key)]
             ELSE popped
      ELSE [s EXCEPT !.blpop_waiting_queue = Remove(s.blpop_waiting_queue, key)]

notify_first_waiting_client(s, key) ==
    IF ~Has(s.blpop_waiting_queue, key) THEN s
    ELSE IF ~Has(s.lists, key) THEN s
    ELSE IF s.lists[key] = <<>> THEN s
    ELSE
      LET queue == s.blpop_waiting_queue[key]
          list == s.lists[key]
      IN
      IF queue # <<>>
      THEN
        LET waiting_client == pop_front(queue).client
            remaining == pop_front(queue).rest
            value == Head(list)
            response == Array(<<BulkString(key), BulkString(value)>>)
            popped == [s EXCEPT !.blpop_waiting_queue[key] = remaining,
                                !.lists[key] = Tail(list)]
        IN
        IF send_is_ok(s, waiting_client)
        THEN [popped EXCEPT !.channel[waiting_client].value = Some(response)]
        ELSE \* Send failed (client timed out?): the value is gone
             IF remaining = <<>>
             THEN [popped EXCEPT !.blpop_waiting_queue =
                                    Remove(popped.blpop_waiting_queue, key)]
             ELSE popped
      ELSE [s EXCEPT !.blpop_waiting_queue = Remove(s.blpop_waiting_queue, key)]

\* a push that would take the length after the waiter was served
rpush_len_after_notify(s, key, values) ==
    LET old == IF Has(s.lists, key) THEN s.lists[key] ELSE <<>>
        s1 == [s EXCEPT !.key_types = Insert(s.key_types, key, "List"),
                        !.lists = Insert(s.lists, key, old \o values)]
        s2 == notify_first_waiting_client(s1, key)
    IN [s |-> s2, len |-> Len(s2.lists[key])]

rpush(s, key, values) ==
    LET old == IF Has(s.lists, key) THEN s.lists[key] ELSE <<>>
        list == old \o values
        s1 == [s EXCEPT !.key_types = Insert(s.key_types, key, "List"),
                        !.lists = Insert(s.lists, key, list)]
    IN [s |-> notify_first_waiting_client(s1, key), len |-> Len(list)]

lpush(s, key, values) ==
    LET old == IF Has(s.lists, key) THEN s.lists[key] ELSE <<>>
        list == Reverse(values) \o old
        s1 == [s EXCEPT !.key_types = Insert(s.key_types, key, "List"),
                        !.lists = Insert(s.lists, key, list)]
    IN [s |-> notify_first_waiting_client(s1, key), len |-> Len(list)]

\* an attempt that would answer with the first element and leave it there
peek_for_blpop(s, key) ==
    IF ~Has(s.lists, key) THEN [s |-> s, removed |-> None]
    ELSE IF s.lists[key] = <<>> THEN [s |-> s, removed |-> None]
    ELSE [s |-> s, removed |-> Some(<<key, Head(s.lists[key])>>)]

\* Option<Vec<Bytes>>: [key, first element], the element removed
lpop_for_blpop(s, key) ==
    IF ~Has(s.lists, key) THEN [s |-> s, removed |-> None]
    ELSE IF s.lists[key] = <<>> THEN [s |-> s, removed |-> None]
    ELSE [s |-> [s EXCEPT !.lists[key] = Tail(s.lists[key])],
          removed |-> Some(<<key, Head(s.lists[key])>>)]

\* a registration that hands out the counter's value and leaves it there
register_same_id(s, key) ==
    LET identifier == s.NEXT_CLIENT_ID
        queue == IF Has(s.blpop_waiting_queue, key)
                 THEN s.blpop_waiting_queue[key] ELSE <<>>
    IN [s |-> [s EXCEPT !.blpop_waiting_queue =
                            Insert(s.blpop_waiting_queue, key,
                                   Append(queue, identifier))],
        identifier |-> identifier]

register_waiting_client(s, key) ==
    LET identifier == s.NEXT_CLIENT_ID
        queue == IF Has(s.blpop_waiting_queue, key)
                 THEN s.blpop_waiting_queue[key] ELSE <<>>
    IN [s |-> [s EXCEPT !.NEXT_CLIENT_ID = identifier + 1,
                        !.blpop_waiting_queue =
                            Insert(s.blpop_waiting_queue, key,
                                   Append(queue, identifier))],
        identifier |-> identifier]

\* a retain that would remove nobody
retain_all(queue, client_id) == queue

\* queue.retain(|client| client.identifier != client_id)
retain_other(queue, client_id) ==
    SelectSeq(queue, LAMBDA identifier : identifier # client_id)

remove_waiting_client(s, key, client_id) ==
    IF Has(s.blpop_waiting_queue, key)
    THEN LET queue == retain_other(s.blpop_waiting_queue[key], client_id) IN
         IF queue = <<>>
         THEN [s EXCEPT !.blpop_waiting_queue = Remove(s.blpop_waiting_queue, key)]
         ELSE [s EXCEPT !.blpop_waiting_queue[key] = queue]
    ELSE s

\* Result<Vec<Bytes>, StoreError>; drain(..amount as usize) panics when the
\* range end is past the length of the list (a negative amount casts to a
\* huge usize)
lpop(s, key, amount) ==
    LET list == IF Has(s.lists, key) THEN s.lists[key] ELSE <<>>
        s1 == [s EXCEPT !.lists = Insert(s.lists, key, list)]
    IN
    IF list # <<>>
    THEN IF amount < 0 \/ amount > Len(list)
         THEN [s |-> s1, r |-> Err("KeyNotFound"), panic |-> TRUE]
         ELSE [s |-> [s1 EXCEPT !.lists[key] = SeqTail(list, amount)],
               r |-> Ok(SubSeq(list, 1, amount)), panic |-> FALSE]
    ELSE [s |-> s1, r |-> Err("KeyNotFound"), panic |-> FALSE]

llen(s, key) == IF Has(s.lists, key) THEN Len(s.lists[key]) ELSE 0

\* Result<Vec<Bytes>, StoreError>, and whether `end += 1` overflowed
lrange(s, key, start, end) ==
    IF ~Has(s.lists, key) THEN [r |-> Err("KeyNotFound"), overflow |-> FALSE]
    ELSE
      LET list == s.lists[key]
          list_length == Len(list)
          start1 == IF start < 0 THEN start + list_length ELSE start
          end1 == IF end < 0 THEN end + list_length ELSE end
          end2 == wrapping_add(end1, 1)
          start2 == IF start1 < 0 THEN 0 ELSE start1
          end3 == IF end2 >= list_length THEN list_length ELSE end2
      IN [r |-> IF start1 >= list_length THEN Ok(<<>>)
                ELSE IF start2 > end3 THEN Ok(<<>>)
                ELSE Ok(SubSeq(list, start2 + 1, end3)),
          overflow |-> add_overflows(end1, 1)]

(***************************************************************************)
(* CommandResponse (commands/mod.rs:30-44) and what a handler leaves: the  *)
(* store, its Result, and whether it panicked.                             *)
(***************************************************************************)
Immediate(value) ==
    [kind |-> "Immediate", value |-> value, timeout |-> 0, key |-> None,
     client_id |-> 0]
WaitForBLPOP(timeout, key, client_id) ==
    [kind |-> "WaitForBLPOP", value |-> NullArray, timeout |-> timeout,
     key |-> Some(key), client_id |-> client_id]
WaitForXREAD(timeout, client_id) ==
    [kind |-> "WaitForXREAD", value |-> NullArray, timeout |-> timeout,
     key |-> None, client_id |-> client_id]

Done(s, r) == [s |-> s, r |-> r, panic |-> FALSE, overflow |-> FALSE]
Panicked(s) == [s |-> s, r |-> Err("panic"), panic |-> TRUE, overflow |-> FALSE]
\* what a release build leaves where a build with overflow checks panics
Overflowed(s, r) == [s |-> s, r |-> r, panic |-> FALSE, overflow |-> TRUE]

\* arguments[1..] filtered to the bulk strings, as bytes
bulk_values(arguments) ==
    LET rest == SelectSeq(Tail(arguments), LAMBDA arg : arg.type = "BulkString")
    IN [i \in 1..Len(rest) |-> rest[i].val[1]]

BulkStrings(values) == [i \in 1..Len(values) |-> BulkString(values[i])]

(***************************************************************************)
(* commands/lists.rs                                                       *)
(***************************************************************************)
handle_rpush(arguments, s) ==
    LET key == extract_key(arguments) IN
    IF ~key.ok THEN Done(s, key)
    ELSE LET pushed == rpush(s, key.v[1], bulk_values(arguments))
         IN Done(pushed.s, Ok(Immediate(Integer(pushed.len))))

handle_lpush(arguments, s) ==
    LET key == extract_key(arguments) IN
    IF ~key.ok THEN Done(s, key)
    ELSE LET pushed == lpush(s, key.v[1], bulk_values(arguments))
         IN Done(pushed.s, Ok(Immediate(Integer(pushed.len))))

handle_llen(arguments, s) ==
    LET key == extract_key(arguments) IN
    IF ~key.ok THEN Done(s, key)
    ELSE Done(s, Ok(Immediate(Integer(llen(s, key.v[1])))))

handle_lpop(arguments, s) ==
    LET key == extract_key(arguments)
        amount == IF Len(arguments) > 1 THEN argument_as_i128(arguments, 1)
                  ELSE Ok(1)
    IN
    IF ~key.ok THEN Done(s, key)
    ELSE IF ~amount.ok THEN Done(s, amount)
    ELSE
      LET popped == lpop(s, key.v[1], amount.v[1])
          removed_elements == popped.r.v[1]
      IN
      IF popped.panic THEN Panicked(popped.s)
      ELSE IF ~popped.r.ok THEN Done(popped.s, Ok(Immediate(NullBulkString)))
      ELSE IF removed_elements = <<>>
           THEN Done(popped.s, Ok(Immediate(NullBulkString)))
      ELSE IF Len(removed_elements) = 1
           THEN Done(popped.s, Ok(Immediate(BulkString(removed_elements[1]))))
      ELSE Done(popped.s, Ok(Immediate(Array(BulkStrings(removed_elements)))))

handle_lrange(arguments, s) ==
    LET key == extract_key(arguments)
        start == argument_as_i128(arguments, 1)
        end == argument_as_i128(arguments, 2)
    IN
    IF ~key.ok THEN Done(s, key)
    ELSE IF ~start.ok THEN Done(s, start)
    ELSE IF ~end.ok THEN Done(s, end)
    ELSE
      LET result == lrange(s, key.v[1], start.v[1], end.v[1])
          response == IF result.r.ok THEN Array(BulkStrings(result.r.v[1]))
                      ELSE Array(<<>>)
      IN IF result.overflow THEN Overflowed(s, Ok(Immediate(response)))
         ELSE Done(s, Ok(Immediate(response)))

handle_blpop(arguments, s) ==
    LET key == extract_key(arguments)
        timeout == argument_as_f64(arguments, 1)
    IN
    IF ~key.ok THEN Done(s, key)
    ELSE IF ~timeout.ok THEN Done(s, timeout)
    ELSE
      LET attempt == lpop_for_blpop(s, key.v[1]) IN
      IF attempt.removed # None
      THEN Done(attempt.s, Ok(Immediate(Array(BulkStrings(attempt.removed[1])))))
      ELSE \* No data - register for waiting
        LET created == [s EXCEPT !.channel =
                            Insert(s.channel, s.NEXT_CLIENT_ID, NewChannel)]
            registered == register_waiting_client(created, key.v[1])
        IN Done(registered.s,
                Ok(WaitForBLPOP(timeout.v[1], key.v[1], registered.identifier)))

(***************************************************************************)
(* Streams (store.rs).  A stream is the BTreeMap from StreamId to the      *)
(* entry's fields: a function whose domain is the set of ids present.      *)
(***************************************************************************)
StreamId(ms, seq) == [ms |-> ms, seq |-> seq]

\* derive(Ord) on StreamId: lexicographic on (ms, seq)
id_lt(a, b) == a.ms < b.ms \/ (a.ms = b.ms /\ a.seq < b.seq)
id_le(a, b) == a = b \/ id_lt(a, b)

\* BTreeMap::last_key_value
last_key(btree) ==
    IF DOMAIN btree = {} THEN None
    ELSE Some(CHOOSE id \in DOMAIN btree : \A other \in DOMAIN btree : id_le(other, id))

\* RedisType::to_bytes: the RESP encoding of the value, kept symbolic
to_bytes(value) == <<"to_bytes", value.type, value.val>>

\* fields and values are taken in pairs; a trailing odd argument is left out
insert_keys_and_values(arguments, map) ==
    LET pairs == Len(arguments) \div 2
        fields == {to_bytes(arguments[2 * i - 1]) : i \in 1..pairs}
        \* a later pair overwrites an earlier one with the same field
        last(field) == CHOOSE i \in 1..pairs :
                          /\ to_bytes(arguments[2 * i - 1]) = field
                          /\ \A j \in 1..pairs :
                                to_bytes(arguments[2 * j - 1]) = field => j <= i
    IN [field \in (DOMAIN map) \cup fields |->
           IF field \in fields THEN to_bytes(arguments[2 * last(field)])
           ELSE map[field]]

xadd_resolve(last_stream_id, seq, ms, now) ==
    IF ms # None /\ seq # None THEN Some(StreamId(ms[1], seq[1]))
    ELSE IF ms # None /\ seq = None
    THEN IF ms[1] = last_stream_id.ms
         THEN Some(StreamId(ms[1], wrapping_u128(last_stream_id.seq + 1)))
         ELSE IF ms[1] = 0 THEN Some(StreamId(ms[1], 1))
         ELSE Some(StreamId(ms[1], 0))
    ELSE IF ms = None /\ seq = None
    THEN LET new_ms == IF now >= last_stream_id.ms THEN now ELSE last_stream_id.ms
         IN IF last_stream_id.ms = new_ms
            THEN Some(StreamId(last_stream_id.ms, wrapping_u128(last_stream_id.seq + 1)))
            ELSE IF new_ms = 0 THEN Some(StreamId(0, 1))
            ELSE Some(StreamId(new_ms, 0))
    ELSE None

\* `last_stream_id.seq + 1` is computed and does not fit a u128
xadd_overflows(last_stream_id, seq, ms, now) ==
    /\ seq = None
    /\ u128_overflows(last_stream_id.seq + 1)
    /\ IF ms # None THEN ms[1] = last_stream_id.ms ELSE now <= last_stream_id.ms

\* a comparison that would let the last id in again: last_id > &stream_id
xadd_rejects_smaller(last_id, stream_id) == id_lt(stream_id, last_id)

\* last_id >= &stream_id
xadd_rejects_last(last_id, stream_id) == id_le(stream_id, last_id)

\* Result<StreamId, StoreError>
xadd(s, stream_key, seq, ms, args) ==
    LET s1 == [s EXCEPT !.key_types = Insert(s.key_types, stream_key, "Stream")]
        min_stream_id == StreamId(0, 1)
        last_stream_id ==
            IF Has(s.streams, stream_key) /\ last_key(s.streams[stream_key]) # None
            THEN last_key(s.streams[stream_key])[1]
            ELSE StreamId(0, 0)
        resolved == xadd_resolve(last_stream_id, seq, ms, s.now)
        stream_id == resolved[1]
        overflow == xadd_overflows(last_stream_id, seq, ms, s.now)
    IN
    IF resolved = None THEN [s |-> s1, r |-> Err("StreamIdSmallerThanLast"), overflow |-> overflow]
    ELSE IF id_lt(stream_id, min_stream_id)
    THEN [s |-> s1, r |-> Err("StreamIdNotGreaterThan0"), overflow |-> overflow]
    ELSE IF Has(s.streams, stream_key)
    THEN LET btree == s.streams[stream_key] IN
         IF last_key(btree) # None /\ xadd_rejects_last(last_key(btree)[1], stream_id)
         THEN [s |-> s1, r |-> Err("StreamIdSmallerThanLast"), overflow |-> overflow]
         ELSE [s |-> [s1 EXCEPT !.streams[stream_key] =
                        Insert(btree, stream_id,
                               insert_keys_and_values(args,
                                   IF Has(btree, stream_id) THEN btree[stream_id]
                                   ELSE EmptyMap))],
               r |-> Ok(stream_id), overflow |-> overflow]
    ELSE [s |-> [s1 EXCEPT !.streams =
                    Insert(s.streams, stream_key,
                           Insert(EmptyMap, stream_id,
                                  insert_keys_and_values(args, EmptyMap)))],
          r |-> Ok(stream_id), overflow |-> overflow]

(***************************************************************************)
(* String keys (store.rs).  WithExpiry is [value, expires].                *)
(***************************************************************************)
set_with_expiry(s, key, value, expiry) ==
    LET expires == IF expiry # None THEN Some(wrapping_u128(s.now + expiry[1]))
                   ELSE None
    IN [s EXCEPT !.key_types = Insert(s.key_types, key, "Key"),
                 !.keys = Insert(s.keys, key, [value |-> value, expires |-> expires])]

\* a lookup that takes a key for expired from the millisecond of its expiry
get_expired_at(s, key) ==
    IF ~Has(s.keys, key) THEN Err("KeyNotFound")
    ELSE IF s.keys[key].expires # None /\ s.keys[key].expires[1] <= s.now
    THEN Err("KeyExpired")
    ELSE Ok(s.keys[key].value)

\* Store::get: a key is expired once its expiry lies before now
get(s, key) ==
    IF ~Has(s.keys, key) THEN Err("KeyNotFound")
    ELSE IF s.keys[key].expires # None /\ s.keys[key].expires[1] < s.now
    THEN Err("KeyExpired")
    ELSE Ok(s.keys[key].value)

get_type(s, key) ==
    IF Has(s.key_types, key)
    THEN CASE s.key_types[key] = "Key" -> "string"
           [] s.key_types[key] = "List" -> "list"
           [] s.key_types[key] = "Stream" -> "stream"
    ELSE "none"

(***************************************************************************)
(* streams.rs                                                              *)
(***************************************************************************)
\* the texts either side of the first dash of a stream id the model uses
IdParts == {"0", "1", "2", "*", "x", "340282366920938463463374607431768211455"}

\* bytes.windows(1).position(== '-') with pos > 0: the two slices around
\* the first dash, None when there is no dash or the text starts with one
split_at_dash(text) ==
    IF \E ms_slice, seq_slice \in IdParts : text = ms_slice \o "-" \o seq_slice
    THEN Some(CHOOSE pair \in IdParts \X IdParts :
                 text = pair[1] \o "-" \o pair[2])
    ELSE None

\* Result<(Option<u128>, Option<u128>), CommandError>, as <<ms, seq>>
extract_stream_id_values(argument) ==
    IF argument.type # "BulkString"
    THEN Err(InvalidInput("Stream id must be bulk string"))
    ELSE
      LET slices == split_at_dash(argument.val[1]) IN
      IF slices = None THEN Ok(<<None, None>>)
      ELSE
        LET ms_slice == slices[1][1]
            seq_slice == slices[1][2]
        IN
        IF ms_slice # "*" /\ parse_u128(ms_slice) = None
        THEN Err(InvalidInput("Unable to parse stream key"))
        ELSE IF seq_slice # "*" /\ parse_u128(seq_slice) = None
        THEN Err(InvalidInput("Unable to parse stream key"))
        ELSE Ok(<<IF ms_slice = "*" THEN None ELSE parse_u128(ms_slice),
                  IF seq_slice = "*" THEN None ELSE parse_u128(seq_slice)>>)

u128_to_string(n) ==
    CASE n = U128Max -> "340282366920938463463374607431768211455"
      [] n = 0 -> "0" [] n = 1 -> "1" [] n = 2 -> "2" [] n = 3 -> "3"
      [] n = 4 -> "4" [] n = 5 -> "5" [] n = 6 -> "6" [] n = 7 -> "7"
      [] n = 8 -> "8" [] n = 9 -> "9" [] OTHER -> "big"

\* impl From<StreamId> for RedisType
stream_id_into(id) ==
    BulkString(u128_to_string(id.ms) \o "-" \o u128_to_string(id.seq))

\* &arguments[1] and &arguments[2..] panic on fewer than two arguments
handle_xadd(arguments, s) ==
    LET key == extract_key(arguments) IN
    IF ~key.ok THEN Done(s, key)
    ELSE IF Len(arguments) < 2 THEN Panicked(s)
    ELSE
      LET id == extract_stream_id_values(arguments[2]) IN
      IF ~id.ok THEN Done(s, id)
      ELSE
        LET added == xadd(s, key.v[1], id.v[1][2], id.v[1][1],
                          SeqTail(arguments, 2))
            result ==
                IF added.r.ok
                THEN Ok(Immediate(stream_id_into(added.r.v[1])))
                ELSE IF added.r.v[1] = "StreamIdSmallerThanLast"
                THEN Ok(Immediate(SimpleError(
                        "ERR The ID specified in XADD is equal or smaller than the target stream top item")))
                ELSE IF added.r.v[1] = "StreamIdNotGreaterThan0"
                THEN Ok(Immediate(SimpleError(
                        "ERR The ID specified in XADD must be greater than 0-0")))
                ELSE Err(InvalidInput("Unable to add to stream"))
        IN IF added.overflow THEN Overflowed(added.s, result)
           ELSE Done(added.s, result)

(***************************************************************************)
(* commands/keys.rs (src/src/keys.rs) and commands/misc.rs                 *)
(***************************************************************************)
handle_get(arguments, s) ==
    LET key == extract_key(arguments) IN
    IF ~key.ok THEN Done(s, key)
    ELSE LET value == get(s, key.v[1]) IN
         IF value.ok THEN Done(s, Ok(Immediate(BulkString(value.v[1]))))
         ELSE Done(s, Ok(Immediate(NullBulkString)))

handle_set(arguments, s) ==
    IF Len(arguments) # 2 /\ Len(arguments) # 4
    THEN Done(s, Err(InvalidInput("Invalid input: expected 2 or 4 arguments")))
    ELSE
      LET key == extract_key(arguments)
          value == argument_as_bytes(arguments, 1)
      IN
      IF ~key.ok THEN Done(s, key)
      ELSE IF ~value.ok THEN Done(s, value)
      ELSE IF Len(arguments) = 4
      THEN LET expiry_unit == argument_as_str(arguments, 2)
               expiry_value == argument_as_u128(arguments, 3)
           IN
           IF ~expiry_unit.ok THEN Done(s, expiry_unit)
           ELSE IF ~expiry_value.ok THEN Done(s, expiry_value)
           ELSE IF expiry_unit.v[1] \notin {"EX", "PX"}
           THEN Done(s, Err(InvalidInput(
                   "Invalid input: expiry unit of SET must be either 'EX' or 'PX'")))
           ELSE LET unit_factor == IF expiry_unit.v[1] = "EX" THEN 1000 ELSE 1
                    product == expiry_value.v[1] * unit_factor
                    expiry == wrapping_u128(product)
                    stored == set_with_expiry(s, key.v[1], value.v[1], Some(expiry))
                IN IF u128_overflows(product) \/ u128_overflows(s.now + expiry)
                   THEN Overflowed(stored, Ok(Immediate(SimpleString("OK"))))
                   ELSE Done(stored, Ok(Immediate(SimpleString("OK"))))
      ELSE Done(set_with_expiry(s, key.v[1], value.v[1], None),
                Ok(Immediate(SimpleString("OK"))))

handle_echo(arguments) ==
    IF Len(arguments) > 0 /\ arguments[1].type = "BulkString"
    THEN BulkString(arguments[1].val[1])
    ELSE SimpleString("")

handle_ping(arguments) ==
    IF arguments # <<>> THEN handle_echo(arguments)
    ELSE SimpleString("PONG")

handle_type(arguments, s) ==
    LET key == extract_key(arguments) IN
    IF ~key.ok THEN Done(s, key)
    ELSE Done(s, Ok(Immediate(SimpleString(get_type(s, key.v[1])))))

(***************************************************************************)
(* XREAD.  Store::xread and Store::register_xread_waiting_client are       *)
(* called by streams.rs; they follow the data engine's description:        *)
(* XREAD-attempt returns the entries strictly greater than after_id, and   *)
(* the registry maps a fresh client id to its keys of interest.            *)
(***************************************************************************)
\* the ids of a set in ascending order
RECURSIVE SortedIds(_)
SortedIds(ids) ==
    IF ids = {} THEN <<>>
    ELSE LET least == CHOOSE id \in ids : \A other \in ids : id_le(id, other)
         IN <<least>> \o SortedIds(ids \ {least})

xread(s, stream_key, after_id) ==
    IF ~Has(s.streams, stream_key) THEN <<>>
    ELSE SortedIds({id \in DOMAIN s.streams[stream_key] : id_lt(after_id, id)})

register_xread_waiting_client(s, stream_keys) ==
    LET identifier == s.NEXT_CLIENT_ID
    IN [s |-> [s EXCEPT !.NEXT_CLIENT_ID = identifier + 1,
                        !.xread_waiting_clients =
                            Insert(s.xread_waiting_clients, identifier, stream_keys)],
        identifier |-> identifier]

\* the flattened [field, value, ...] of one entry, in some iteration order
RECURSIVE FlatFields(_)
FlatFields(map) ==
    IF DOMAIN map = {} THEN <<>>
    ELSE LET field == CHOOSE f \in DOMAIN map : TRUE
         IN <<BulkString(field), BulkString(map[field])>> \o FlatFields(Remove(map, field))

xread_output_to_redis_type(s, key, ids) ==
    Array(<<BulkString(key),
            Array([i \in 1..Len(ids) |->
                     Array(<<stream_id_into(ids[i]),
                             Array(FlatFields(s.streams[key][ids[i]]))>>)])>>)

\* stream.range(start_stream_id..=end_stream_id), in id order; BTreeMap::range
\* panics when the start of the range is greater than its end
xrange(s, stream_key, start_stream_id, end_stream_id) ==
    IF ~Has(s.streams, stream_key) THEN [entries |-> <<>>, panic |-> FALSE]
    ELSE IF id_lt(end_stream_id, start_stream_id)
    THEN [entries |-> <<>>, panic |-> TRUE]
    ELSE [entries |-> SortedIds({id \in DOMAIN s.streams[stream_key] :
                                    id_le(start_stream_id, id) /\ id_le(id, end_stream_id)}),
          panic |-> FALSE]

\* a missing bound is unbounded: the least id, or the last id of the stream
xrange_unbounded(s, stream_key, start_stream_id, end_stream_id) ==
    LET start == IF start_stream_id = None THEN StreamId(0, 0) ELSE start_stream_id[1]
        last == IF Has(s.streams, stream_key) THEN last_key(s.streams[stream_key])
                ELSE None
    IN IF end_stream_id # None THEN xrange(s, stream_key, start, end_stream_id[1])
       ELSE IF last = None \/ id_lt(last[1], start)
       THEN [entries |-> <<>>, panic |-> FALSE]
       ELSE xrange(s, stream_key, start, last[1])

\* &arguments[1] and &arguments[2] panic on fewer than three arguments
handle_xrange(arguments, s) ==
    LET stream_key == extract_key(arguments) IN
    IF ~stream_key.ok THEN Done(s, stream_key)
    ELSE IF Len(arguments) < 2 THEN Panicked(s)
    ELSE
      LET start == extract_stream_id_values(arguments[2]) IN
      IF ~start.ok THEN Done(s, start)
      ELSE IF Len(arguments) < 3 THEN Panicked(s)
      ELSE
        LET end == extract_stream_id_values(arguments[3]) IN
        IF ~end.ok THEN Done(s, end)
        ELSE
          LET bound(ms, sq) ==
                  IF ms = None THEN None
                  ELSE Some(StreamId(ms[1], IF sq = None THEN 0 ELSE sq[1]))
              start_stream_id == bound(start.v[1][1], start.v[1][2])
              end_stream_id == bound(end.v[1][1], end.v[1][2])
              found == xrange_unbounded(s, stream_key.v[1], start_stream_id, end_stream_id)
              ids == found.entries
          IN
          IF found.panic THEN Panicked(s)
          ELSE Done(s, Ok(Immediate(Array(
                  [i \in 1..Len(ids) |->
                      Array(<<stream_id_into(ids[i]),
                              Array(FlatFields(s.streams[stream_key.v[1]][ids[i]]))>>)]))))

\* Result<RedisType, CommandError>
handle_xread_immediate(keys_and_ids, s) ==
    LET half == Len(keys_and_ids) \div 2
        stream_keys == SubSeq(keys_and_ids, 1, half)
        stream_ids == SeqTail(keys_and_ids, half)
        ids == [i \in 1..Len(stream_ids) |-> extract_stream_id_values(stream_ids[i])]
    IN
    IF \E i \in 1..half : stream_keys[i].type \notin {"BulkString", "SimpleString"}
    THEN Err(InvalidInput("Invalid argument: Must be a bulkstring"))
    ELSE IF \E i \in 1..Len(ids) : ~ids[i].ok
    THEN ids[CHOOSE i \in 1..Len(ids) : ~ids[i].ok /\ \A j \in 1..(i - 1) : ids[j].ok]
    ELSE Ok(Array([i \in 1..half |->
            LET key == stream_keys[i].val[1]
                ms == ids[i].v[1][1]
                seq == ids[i].v[1][2]
                after == StreamId(IF ms = None THEN 0 ELSE ms[1],
                                  IF seq = None THEN 0 ELSE seq[1])
            IN xread_output_to_redis_type(s, key, xread(s, key, after))]))

\* the first stream of the reply has an entry
has_some_content(array) ==
    /\ array[1].type = "Array"
    /\ \E i \in 1..Len(array[1].val) :
          array[1].val[i].type = "Array" /\ array[1].val[i].val # <<>>

handle_xread(arguments, s) ==
    LET possible_block == argument_as_str(arguments, 0) IN
    IF ~possible_block.ok THEN Done(s, possible_block)
    ELSE IF possible_block.v[1] \in {"BLOCK", "block"}
    THEN
      LET timeout == argument_as_u128(arguments, 1)
          last_argument == argument_as_str(arguments, Len(arguments) - 1)
      IN
      IF ~timeout.ok THEN Done(s, timeout)
      ELSE IF ~last_argument.ok THEN Done(s, last_argument)
      ELSE IF Len(arguments) < 3 THEN Panicked(s)
      ELSE
        LET keys_and_ids == SeqTail(arguments, 3)
            resp == handle_xread_immediate(keys_and_ids, s)
        IN
        IF ~resp.ok THEN Done(s, resp)
        ELSE IF resp.v[1].val # <<>>
        THEN IF has_some_content(resp.v[1].val) /\ last_argument.v[1] # "$"
             THEN Done(s, Ok(Immediate(resp.v[1])))
             ELSE \* No data - register for waiting
               LET half == Len(keys_and_ids) \div 2
                   key_as_bytes == [i \in 1..half |-> keys_and_ids[i].val[1]]
                   created == [s EXCEPT !.channel =
                                  Insert(s.channel, s.NEXT_CLIENT_ID, NewChannel)]
                   registered == register_xread_waiting_client(created, key_as_bytes)
               IN Done(registered.s,
                       Ok(WaitForXREAD(timeout.v[1], registered.identifier)))
        ELSE Done(s, Ok(Immediate(resp.v[1])))
    ELSE
      LET resp == handle_xread_immediate(Tail(arguments), s) IN
      IF ~resp.ok THEN Done(s, resp)
      ELSE Done(s, Ok(Immediate(resp.v[1])))

(***************************************************************************)
(* commands/mod.rs                                                         *)
(***************************************************************************)
to_ascii_uppercase(str) ==
    CASE str = "ping" -> "PING"
      [] str = "rpush" -> "RPUSH"
      [] str = "blpop" -> "BLPOP"
      [] OTHER -> str

handle_command(input, s) ==
    IF input.type # "Array"
    THEN Done(s, Err(InvalidInput("The supplied input has an invalid format or redis type: Input needs to be of RedisType::Array")))
    ELSE
      LET elements == input.val
          name == argument_as_str(elements, 0)
          command == to_ascii_uppercase(name.v[1])
          arguments == Tail(elements)
      IN
      IF ~name.ok THEN Done(s, name)
      ELSE CASE command = "PING" -> Done(s, Ok(Immediate(handle_ping(arguments))))
             [] command = "ECHO" -> Done(s, Ok(Immediate(handle_echo(arguments))))
             [] command = "RPUSH" -> handle_rpush(arguments, s)
             [] command = "LPUSH" -> handle_lpush(arguments, s)
             [] command = "GET" -> handle_get(arguments, s)
             [] command = "SET" -> handle_set(arguments, s)
             [] command = "LRANGE" -> handle_lrange(arguments, s)
             [] command = "LLEN" -> handle_llen(arguments, s)
             [] command = "LPOP" -> handle_lpop(arguments, s)
             [] command = "TYPE" -> handle_type(arguments, s)
             [] command = "XADD" -> handle_xadd(arguments, s)
             [] command = "XRANGE" -> handle_xrange(arguments, s)
             [] command = "XREAD" -> handle_xread(arguments, s)
             [] command = "BLPOP" -> handle_blpop(arguments, s)
             [] OTHER -> Done(s, Err(UnknownCommand("redis command not supported")))

(***************************************************************************)
(* The wire codec (parser.rs).  A buffer is a sequence of bytes, a byte a   *)
(* string of one character; the Bytes of a value are a sequence of bytes.  *)
(***************************************************************************)
CR == "\r"
LF == "\n"
CRLF == <<CR, LF>>

DecimalDigits == <<"0", "1", "2", "3", "4", "5", "6", "7", "8", "9">>
DigitBytes == {DecimalDigits[i] : i \in 1..10}
DigitValue(byte) == (CHOOSE i \in 1..10 : DecimalDigits[i] = byte) - 1

\* usize::to_string and i128::to_string: minimal decimal, `-` for negatives
RECURSIVE to_string(_)
to_string(n) ==
    IF n < 0 THEN <<"-">> \o to_string(0 - n)
    ELSE IF n < 10 THEN <<DecimalDigits[n + 1]>>
    ELSE to_string(n \div 10) \o <<DecimalDigits[(n % 10) + 1]>>

\* the number a text of decimal digits reads as
RECURSIVE decimal(_)
decimal(text) ==
    IF text = <<>> THEN 0
    ELSE 10 * decimal(SubSeq(text, 1, Len(text) - 1)) + DigitValue(text[Len(text)])

\* str::parse::<usize>: decimal digits after an optional `+`, at least one
parse_usize(text) ==
    LET digits == IF text # <<>> /\ text[1] = "+" THEN Tail(text) ELSE text
    IN IF digits = <<>> \/ \E i \in 1..Len(digits) : digits[i] \notin DigitBytes
       THEN None
       ELSE Some(decimal(digits))

\* the byte sequences of a vector of byte sequences, one after the other
RECURSIVE concat(_)
concat(chunks) ==
    IF chunks = <<>> THEN <<>> ELSE Head(chunks) \o concat(Tail(chunks))

\* RedisType::encode
RECURSIVE encode(_)
encode(value) ==
    CASE value.type = "SimpleString" -> <<"+">> \o value.val[1] \o CRLF
      [] value.type = "SimpleError" -> <<"-">> \o value.val[1] \o CRLF
      [] value.type = "Integer" -> <<":">> \o to_string(value.val[1]) \o CRLF
      [] value.type = "BulkString" ->
            <<"$">> \o to_string(Len(value.val[1])) \o CRLF \o value.val[1] \o CRLF
      [] value.type = "Array" ->
            <<"*">> \o to_string(Len(value.val)) \o CRLF
            \o concat([i \in 1..Len(value.val) |-> encode(value.val[i])])
      [] value.type = "NullArray" -> <<"*", "-", "1">> \o CRLF
      [] value.type = "NullBulkString" -> <<"$", "-", "1">> \o CRLF

\* buffer.windows(2).position(|w| w == CRLF): the offset of the first CR LF
crlf_position(buffer) ==
    LET hits == {i \in 1..(Len(buffer) - 1) : buffer[i] = CR /\ buffer[i + 1] = LF}
    IN IF hits = {} THEN None
       ELSE Some((CHOOSE i \in hits : \A j \in hits : i <= j) - 1)

\* BytesMut::advance, for cnt <= len
advance(buffer, cnt) == SubSeq(buffer, cnt + 1, Len(buffer))

\* the outcome of a parse function: the Result and the buffer it leaves;
\* panic when the function does not return
ParseOk(value, buffer) ==
    [ok |-> TRUE, v |-> <<value>>, buffer |-> buffer, panic |-> FALSE]
InvalidFormat(buffer) ==
    [ok |-> FALSE, v |-> <<"InvalidFormat">>, buffer |-> buffer, panic |-> FALSE]
ParsePanic(buffer) ==
    [ok |-> FALSE, v |-> <<"panic">>, buffer |-> buffer, panic |-> TRUE]

\* called with buffer[0] = `+` or `-`: the text up to the first CR LF, which
\* must hold neither CR nor LF
parse_simple_string(buffer) ==
    LET end == crlf_position(buffer) IN
    IF end = None THEN InvalidFormat(buffer)
    ELSE IF \E i \in 2..end[1] : buffer[i] \in {CR, LF}
    THEN InvalidFormat(buffer)
    ELSE ParseOk(SimpleString(SubSeq(buffer, 2, end[1])), advance(buffer, end[1] + 2))

parse_simple_error(input) ==
    LET string == parse_simple_string(input) IN
    IF string.ok THEN ParseOk(SimpleError(string.v[1].val[1]), string.buffer)
    ELSE string

\* a bulk string parser that takes the bytes up to the next CR LF whatever
\* the size says
parse_bulk_string_any_size(buffer) ==
    LET str_size_delimiter_pos == crlf_position(buffer) IN
    IF str_size_delimiter_pos = None THEN InvalidFormat(buffer)
    ELSE
      LET size == parse_usize(SubSeq(buffer, 2, str_size_delimiter_pos[1]))
          data == advance(buffer, str_size_delimiter_pos[1] + 2)
          string_end == crlf_position(data)
      IN IF size = None THEN InvalidFormat(buffer)
         ELSE IF string_end = None THEN InvalidFormat(buffer)
         ELSE ParseOk(BulkString(SubSeq(data, 1, string_end[1])),
                      advance(data, string_end[1] + 2))

\* called with buffer[0] = `$`: the size, then the bytes up to the NEXT
\* CR LF, which must be as many as the size says
parse_bulk_string(buffer) ==
    LET str_size_delimiter_pos == crlf_position(buffer) IN
    IF str_size_delimiter_pos = None THEN InvalidFormat(buffer)
    ELSE
      LET size == parse_usize(SubSeq(buffer, 2, str_size_delimiter_pos[1]))
          string_start_position == str_size_delimiter_pos[1] + 2
          data == advance(buffer, string_start_position)
          string_end == crlf_position(data)
      IN IF size = None THEN InvalidFormat(buffer)
         ELSE IF string_end = None THEN InvalidFormat(buffer)
         ELSE IF string_end[1] # size[1] THEN InvalidFormat(buffer)
         ELSE ParseOk(BulkString(SubSeq(data, 1, string_end[1])),
                      advance(data, string_end[1] + 2))

\* parse_array: the size line is taken off the buffer, then the elements one
\* by one.  buffer[0] panics on the empty buffer; a byte that starts no known
\* type gives NullBulkString and takes nothing; an element's error is
\* returned with the buffer as the elements before it left it.
RECURSIVE parse_array(_), parse_elements(_, _, _)
parse_elements(buffer, elements, array_length) ==
    IF Len(elements) >= array_length THEN ParseOk(Array(elements), buffer)
    ELSE IF buffer = <<>> THEN ParsePanic(buffer)
    ELSE LET element ==
               CASE buffer[1] = "+" -> parse_simple_string(buffer)
                 [] buffer[1] = "-" -> parse_simple_error(buffer)
                 [] buffer[1] = "$" -> parse_bulk_string(buffer)
                 [] buffer[1] = "*" -> parse_array(buffer)
                 [] OTHER -> ParseOk(NullBulkString, buffer)
         IN IF ~element.ok THEN element
            ELSE parse_elements(element.buffer, Append(elements, element.v[1]),
                                array_length)

\* &buffer[1..pos] panics when the buffer starts with CR LF
parse_array(buffer) ==
    LET array_len_delimiter_pos == crlf_position(buffer) IN
    IF array_len_delimiter_pos = None THEN InvalidFormat(buffer)
    ELSE IF array_len_delimiter_pos[1] < 1 THEN ParsePanic(buffer)
    ELSE
      LET array_length == parse_usize(SubSeq(buffer, 2, array_len_delimiter_pos[1]))
          array_start_position == array_len_delimiter_pos[1] + 2
      IN IF array_length = None THEN InvalidFormat(buffer)
         ELSE parse_elements(advance(buffer, array_start_position), <<>>,
                             array_length[1])

\* resp inputs are by definition arrays
parse_resp(buffer) == parse_array(buffer)

(***************************************************************************)
(* The running server (main.rs): the actor task that owns the store, the   *)
(* mpsc channel into it, and one task per connection.                      *)
(***************************************************************************)
VARIABLES
    key_types, streams, keys, lists, blpop_waiting_queue,   \* struct Store
    xread_waiting_clients,  \* the XREAD BLOCK registry of the store
    NEXT_CLIENT_ID,         \* static NEXT_CLIENT_ID
    channel,                \* one-shot channels of the waiting clients, by identifier
    clock,                  \* SystemTime::now() in ms
    actor_alive,            \* the actor task has not panicked
    mailbox,                \* the mpsc channel: RedisMessage in flight
    pc,                     \* where each connection task stands
    socket,                 \* number of requests a client has written, not yet read
    buffer,                 \* number of requests read into the BytesMut, not yet parsed
    reply,                  \* the reply one-shot of the outstanding command
    ticket,                 \* the wait-ticket a connection is blocked on
    written,                \* replies written to each socket, in order
    issued,                 \* number of requests the clients have written
    done,                   \* history: the message the actor handled last, the
                            \* store it found and the reply it sent
    log,                    \* history: the messages handled so far, where a
                            \* specification records them
    frames,                 \* the RESP values a peer encodes onto its socket
    wire,                   \* bytes the peer has written that read_buf has not taken
    bytes,                  \* the BytesMut handed to parse_resp
    parsed,                 \* history: each call of parse_resp, its input and outcome
    decoder_alive           \* the task calling parse_resp has not panicked

store_vars == <<key_types, streams, keys, lists, blpop_waiting_queue,
                xread_waiting_clients, NEXT_CLIENT_ID>>
conn_vars == <<pc, socket, buffer, reply, ticket, written, issued>>
codec_vars == <<frames, wire, bytes, parsed, decoder_alive>>
server_vars == <<store_vars, channel, clock, actor_alive, mailbox, conn_vars, done, log>>
vars == <<server_vars, codec_vars>>

\* the store as the handlers see it
Store ==
    [key_types |-> key_types, streams |-> streams, keys |-> keys, lists |-> lists,
     blpop_waiting_queue |-> blpop_waiting_queue,
     xread_waiting_clients |-> xread_waiting_clients,
     NEXT_CLIENT_ID |-> NEXT_CLIENT_ID, channel |-> channel, now |-> clock]

SetStore(s) ==
    /\ key_types' = s.key_types
    /\ streams' = s.streams
    /\ keys' = s.keys
    /\ lists' = s.lists
    /\ blpop_waiting_queue' = s.blpop_waiting_queue
    /\ xread_waiting_clients' = s.xread_waiting_clients
    /\ NEXT_CLIENT_ID' = s.NEXT_CLIENT_ID
    /\ channel' = s.channel

\* RedisMessage
SendMessage(conn, message) ==
    [kind |-> "SendMessage", conn |-> conn, message |-> message,
     key |-> None, identifier |-> 0]
SendTimeout(conn, key, identifier) ==
    [kind |-> "SendTimeout", conn |-> conn, message |-> NullArray,
     key |-> key, identifier |-> identifier]

NoMessage ==
    [kind |-> "None", conn |-> "", message |-> NullArray, key |-> None,
     identifier |-> 0]

InitStore ==
    [key_types |-> EmptyMap, streams |-> EmptyMap, keys |-> EmptyMap,
     lists |-> EmptyMap, blpop_waiting_queue |-> EmptyMap,
     xread_waiting_clients |-> EmptyMap, NEXT_CLIENT_ID |-> 0,
     channel |-> EmptyMap, now |-> 0]

Cmd(words) == Array([i \in 1..Len(words) |-> BulkString(words[i])])

InitServer ==
    /\ key_types = EmptyMap /\ streams = EmptyMap /\ keys = EmptyMap
    /\ lists = EmptyMap /\ blpop_waiting_queue = EmptyMap
    /\ xread_waiting_clients = EmptyMap
    /\ NEXT_CLIENT_ID = 0
    /\ channel = EmptyMap
    /\ clock = 0
    /\ actor_alive = TRUE
    /\ mailbox = <<>>
    /\ pc = [c \in Conns |-> "read"]
    /\ socket = [c \in Conns |-> 0]
    /\ buffer = [c \in Conns |-> 0]
    /\ reply = [c \in Conns |-> None]
    /\ ticket = [c \in Conns |-> Immediate(NullArray)]
    /\ written = [c \in Conns |-> <<>>]
    /\ issued = 0
    /\ done = [msg |-> NoMessage, before |-> InitStore, resp |-> Immediate(NullArray)]
    /\ log = <<>>

\* no peer of the codec: nothing on the wire, nothing in the BytesMut
Init ==
    /\ InitServer
    /\ frames = <<>> /\ wire = <<>> /\ bytes = <<>> /\ parsed = <<>>
    /\ decoder_alive = TRUE

(***************************************************************************)
(* The actor task (main.rs:186-217)                                        *)
(***************************************************************************)
\* the reply the actor sends for a handler's Result
actor_reply(r) ==
    IF r.ok THEN r.v[1] ELSE Immediate(SimpleError(<<"ERR", r.v[1]>>))

\* what the history keeps of a handled message: the message, the reply, the
\* time and the receivers that had been dropped when the actor took it
LogEntry(msg, resp) ==
    [msg |-> msg, resp |-> resp, now |-> clock,
     dropped |-> {id \in DOMAIN channel : ~channel[id].receiver}]

\* RedisMessage::SendMessage: run the command, answer on the reply one-shot
ActorCommand(record) ==
    /\ actor_alive
    /\ mailbox # <<>>
    /\ Head(mailbox).kind = "SendMessage"
    /\ LET cmd == Head(mailbox)
           out == handle_command(cmd.message, Store)
       IN \E overflow_checks \in IF out.overflow THEN BOOLEAN ELSE {FALSE} :
          IF out.panic \/ overflow_checks
          THEN /\ actor_alive' = FALSE
               /\ UNCHANGED <<store_vars, channel, reply, done, log>>
          ELSE /\ SetStore(out.s)
               /\ reply' = [reply EXCEPT ![cmd.conn] = Some(actor_reply(out.r))]
               /\ done' = [msg |-> cmd, before |-> Store, resp |-> actor_reply(out.r)]
               /\ log' = IF record
                         THEN Append(log, LogEntry(cmd, actor_reply(out.r)))
                         ELSE log
               /\ UNCHANGED actor_alive
    /\ mailbox' = Tail(mailbox)
    /\ UNCHANGED <<clock, pc, socket, buffer, ticket, written, issued>>
    /\ UNCHANGED codec_vars

\* what the actor does with a SendTimeout { key, identifier }
actor_cleanup(s, key, identifier) ==
    IF key # None THEN remove_waiting_client(s, key[1], identifier) ELSE s

ActorTimeout(record) ==
    /\ actor_alive
    /\ mailbox # <<>>
    /\ Head(mailbox).kind = "SendTimeout"
    /\ SetStore(actor_cleanup(Store, Head(mailbox).key, Head(mailbox).identifier))
    /\ done' = [msg |-> Head(mailbox), before |-> Store, resp |-> Immediate(NullArray)]
    /\ log' = IF record
              THEN Append(log, LogEntry(Head(mailbox), Immediate(NullArray)))
              ELSE log
    /\ mailbox' = Tail(mailbox)
    /\ UNCHANGED <<clock, actor_alive, conn_vars>>
    /\ UNCHANGED codec_vars

(***************************************************************************)
(* A connection task (main.rs:48-174) and the client at the other end      *)
(***************************************************************************)
\* the requests the clients of the running server send
SysCommands ==
    { Cmd(<<"RPUSH", "K", "a">>), Cmd(<<"LPUSH", "K", "a", "b">>),
      Cmd(<<"BLPOP", "K", "0">>), Cmd(<<"BLPOP", "K", "1">>) }

\* the client writes one or more complete requests in one go; what a
\* request says is drawn when the server decodes it
ClientWrite(c, budget) ==
    \E n \in 1..MaxPipeline :
        /\ issued + n <= budget
        /\ socket' = [socket EXCEPT ![c] = socket[c] + n]
        /\ issued' = issued + n
        /\ UNCHANGED <<done, log, store_vars, channel, clock, actor_alive, mailbox, pc,
                       buffer, reply, ticket, written>>
        /\ UNCHANGED codec_vars

\* a connection task that reads and sends its next request whether or not
\* the reply to the last one has come
ReadAhead(c, commands) ==
    /\ socket[c] > 0
    /\ Len(mailbox) < ChannelCapacity
    /\ \E n \in 1..socket[c] : \E request \in commands :
          /\ socket' = [socket EXCEPT ![c] = socket[c] - n]
          /\ buffer' = [buffer EXCEPT ![c] = buffer[c] + n - 1]
          /\ mailbox' = Append(mailbox, SendMessage(c, request))
    /\ pc' = [pc EXCEPT ![c] = "await_reply"]
    /\ UNCHANGED <<done, log, store_vars, channel, clock, actor_alive, reply, ticket,
                   written, issued>>
    /\ UNCHANGED codec_vars

\* read_buf returns with some of the bytes written; parse_resp takes ONE
\* request off the front of the buffer; it is sent to the actor
Read(c, commands) ==
    /\ pc[c] = "read"
    /\ socket[c] > 0
    /\ Len(mailbox) < ChannelCapacity
    /\ \E n \in 1..socket[c] : \E request \in commands :
          /\ socket' = [socket EXCEPT ![c] = socket[c] - n]
          /\ buffer' = [buffer EXCEPT ![c] = buffer[c] + n - 1]
          /\ mailbox' = Append(mailbox, SendMessage(c, request))
    /\ pc' = [pc EXCEPT ![c] = "await_reply"]
    /\ UNCHANGED <<done, log, store_vars, channel, clock, actor_alive, reply, ticket,
                   written, issued>>
    /\ UNCHANGED codec_vars

\* reply_rx.await returns CommandResponse::Immediate: the value is written
RespondImmediate(c) ==
    /\ pc[c] = "await_reply"
    /\ reply[c] # None
    /\ reply[c][1].kind = "Immediate"
    /\ written' = [written EXCEPT ![c] = Append(written[c], reply[c][1].value)]
    /\ reply' = [reply EXCEPT ![c] = None]
    /\ pc' = [pc EXCEPT ![c] = "read"]
    /\ UNCHANGED <<done, log, store_vars, channel, clock, actor_alive, mailbox, socket,
                   buffer, ticket, issued>>
    /\ UNCHANGED codec_vars

\* Duration::from_secs_f64 panics on negative seconds
duration_panics(wait) == wait.kind = "WaitForBLPOP" /\ wait.timeout < 0

\* reply_rx.await returns WaitForBLPOP with a negative timeout: the task
\* panics building the Duration, and the receiver is dropped with it
WaitPanics(c) ==
    /\ pc[c] = "await_reply"
    /\ reply[c] # None
    /\ reply[c][1].kind \in {"WaitForBLPOP", "WaitForXREAD"}
    /\ duration_panics(reply[c][1])
    /\ channel' = [channel EXCEPT ![reply[c][1].client_id].receiver = FALSE]
    /\ ticket' = [ticket EXCEPT ![c] = reply[c][1]]
    /\ reply' = [reply EXCEPT ![c] = None]
    /\ pc' = [pc EXCEPT ![c] = "panicked"]
    /\ UNCHANGED <<done, log, store_vars, clock, actor_alive, mailbox, socket,
                   buffer, written, issued>>
    /\ UNCHANGED codec_vars

\* reply_rx.await returns WaitForBLPOP or WaitForXREAD: await the receiver
RespondWait(c) ==
    /\ pc[c] = "await_reply"
    /\ reply[c] # None
    /\ reply[c][1].kind \in {"WaitForBLPOP", "WaitForXREAD"}
    /\ ~duration_panics(reply[c][1])
    /\ ticket' = [ticket EXCEPT ![c] = reply[c][1]]
    /\ reply' = [reply EXCEPT ![c] = None]
    /\ pc' = [pc EXCEPT ![c] = "wait"]
    /\ UNCHANGED <<done, log, store_vars, channel, clock, actor_alive, mailbox, socket,
                   buffer, written, issued>>
    /\ UNCHANGED codec_vars

\* the receiver yields the value sent by the store: it is written
Receive(c) ==
    /\ pc[c] = "wait"
    /\ channel[ticket[c].client_id].value # None
    /\ written' = [written EXCEPT ![c] =
                      Append(written[c], channel[ticket[c].client_id].value[1])]
    /\ pc' = [pc EXCEPT ![c] = "read"]
    /\ UNCHANGED <<done, log, store_vars, channel, clock, actor_alive, mailbox, socket,
                   buffer, reply, ticket, issued>>
    /\ UNCHANGED codec_vars

\* a connection task that would take its waiter out of the queue itself
TimeoutElapsesAndDeregisters(c) ==
    /\ pc[c] = "wait"
    /\ ticket[c].timeout # 0
    /\ channel[ticket[c].client_id].value = None
    /\ channel' = [channel EXCEPT ![ticket[c].client_id].receiver = FALSE]
    /\ SetStore([actor_cleanup(Store, ticket[c].key, ticket[c].client_id)
                   EXCEPT !.channel = channel'])
    /\ pc' = [pc EXCEPT ![c] = "read"]
    /\ UNCHANGED <<done, log, clock, actor_alive, mailbox, socket, buffer,
                   reply, ticket, written, issued>>
    /\ UNCHANGED codec_vars

\* timeout(..., receiver) elapses with no value sent: the receiver is dropped
TimeoutElapses(c) ==
    /\ pc[c] = "wait"
    /\ ticket[c].timeout # 0
    /\ channel[ticket[c].client_id].value = None
    /\ channel' = [channel EXCEPT ![ticket[c].client_id].receiver = FALSE]
    /\ pc' = [pc EXCEPT ![c] = "cleanup"]
    /\ UNCHANGED <<done, log, store_vars, clock, actor_alive, mailbox, socket, buffer,
                   reply, ticket, written, issued>>
    /\ UNCHANGED codec_vars

\* the SendTimeout message of a ticket: BLPOP names its key, XREAD names none
cleanup_message(c, t) ==
    SendTimeout(c, IF t.kind = "WaitForBLPOP" THEN t.key ELSE None, t.client_id)

\* the cleanup message is sent and the null array is written
SendCleanup(c) ==
    /\ pc[c] = "cleanup"
    /\ Len(mailbox) < ChannelCapacity
    /\ mailbox' = Append(mailbox, cleanup_message(c, ticket[c]))
    /\ written' = [written EXCEPT ![c] = Append(written[c], NullArray)]
    /\ pc' = [pc EXCEPT ![c] = "read"]
    /\ UNCHANGED <<done, log, store_vars, channel, clock, actor_alive, socket, buffer,
                   reply, ticket, issued>>
    /\ UNCHANGED codec_vars

Next ==
    \/ ActorCommand(FALSE)
    \/ ActorTimeout(FALSE)
    \/ \E c \in Conns : ClientWrite(c, MaxCmds)
    \/ \E c \in Conns : Read(c, SysCommands)
    \/ \E c \in Conns : RespondImmediate(c)
    \/ \E c \in Conns : RespondWait(c)
    \/ \E c \in Conns : Receive(c)
    \/ \E c \in Conns : TimeoutElapses(c)
    \/ \E c \in Conns : SendCleanup(c)

Spec == Init /\ [][Next]_vars

(***************************************************************************)
(* The same server serving one request more                                *)
(***************************************************************************)
NextOvertake ==
    \/ ActorCommand(FALSE)
    \/ ActorTimeout(FALSE)
    \/ \E c \in Conns : ClientWrite(c, MaxOvertakeCmds)
    \/ \E c \in Conns : Read(c, SysCommands)
    \/ \E c \in Conns : RespondImmediate(c)
    \/ \E c \in Conns : RespondWait(c)
    \/ \E c \in Conns : Receive(c)
    \/ \E c \in Conns : TimeoutElapses(c)
    \/ \E c \in Conns : SendCleanup(c)

SpecOvertake == Init /\ [][NextOvertake]_vars

(***************************************************************************)
(* The same server with the actor's messages recorded in log, serving      *)
(* fewer requests                                                          *)
(***************************************************************************)
SerialCommands ==
    { Cmd(<<"RPUSH", "K", "a">>), Cmd(<<"BLPOP", "K", "1">>) }

NextSerial ==
    \/ ActorCommand(TRUE)
    \/ ActorTimeout(TRUE)
    \/ \E c \in Conns : ClientWrite(c, MaxSerialCmds)
    \/ \E c \in Conns : Read(c, SerialCommands)
    \/ \E c \in Conns : RespondImmediate(c)
    \/ \E c \in Conns : RespondWait(c)
    \/ \E c \in Conns : Receive(c)
    \/ \E c \in Conns : TimeoutElapses(c)
    \/ \E c \in Conns : SendCleanup(c)

SpecSerial == Init /\ [][NextSerial]_vars

(***************************************************************************)
(* The same server with clients that block on streams                      *)
(***************************************************************************)
XreadCommands ==
    { Cmd(<<"XREAD", "BLOCK", "1", "STREAMS", "S", "0-0">>),
      Cmd(<<"XADD", "S", "1-1", "f", "a">>),
      Cmd(<<"BLPOP", "K", "0">>), Cmd(<<"RPUSH", "K", "a">>) }

NextXread ==
    \/ ActorCommand(FALSE)
    \/ ActorTimeout(FALSE)
    \/ \E c \in Conns : ClientWrite(c, MaxXreadCmds)
    \/ \E c \in Conns : Read(c, XreadCommands)
    \/ \E c \in Conns : RespondImmediate(c)
    \/ \E c \in Conns : RespondWait(c)
    \/ \E c \in Conns : Receive(c)
    \/ \E c \in Conns : TimeoutElapses(c)
    \/ \E c \in Conns : SendCleanup(c)

SpecXread == Init /\ [][NextXread]_vars

(***************************************************************************)
(* The actor alone: commands arrive one at a time, the clock advances      *)
(***************************************************************************)
\* a command arrives in the empty mailbox
Submit(commands, budget) ==
    /\ actor_alive
    /\ mailbox = <<>>
    /\ issued < budget
    /\ \E input \in commands : mailbox' = <<SendMessage("c1", input)>>
    /\ issued' = issued + 1
    /\ UNCHANGED <<done, log, store_vars, channel, clock, actor_alive, pc, socket,
                   buffer, reply, ticket, written>>
    /\ UNCHANGED codec_vars

\* SystemTime::now() has moved on by a millisecond
Tick ==
    /\ clock < MaxClock
    /\ clock' = clock + 1
    /\ UNCHANGED <<done, log, store_vars, channel, actor_alive, mailbox, conn_vars>>
    /\ UNCHANGED codec_vars

StoreCommands ==
    { Cmd(<<"SET", "K", "a">>), Cmd(<<"RPUSH", "K", "a">>),
      Cmd(<<"LPUSH", "K", "a">>), Cmd(<<"LPOP", "K">>),
      Cmd(<<"BLPOP", "K", "0">>), Cmd(<<"XADD", "K", "1-1", "f", "a">>),
      Cmd(<<"XADD", "K", "0-0", "f", "a">>),
      Cmd(<<"SET", "J", "a">>), Cmd(<<"LPOP", "J">>), Cmd(<<"XADD", "J", "*", "f", "a">>) }

NextStore ==
    \/ Submit(StoreCommands, MaxStoreCmds)
    \/ ActorCommand(TRUE)
    \/ Tick

SpecStore == Init /\ [][NextStore]_vars

\* the stream ids the clients of SpecStream give to XADD
XaddIds == {"1-1", "1-*", "*", "0-0", "0-*", "2-0", "2-*", "*-1", "x-1", "1"}

StreamCommands == { Cmd(<<"XADD", "S", id, "f", "a">>) : id \in XaddIds }

NextStream ==
    \/ Submit(StreamCommands, MaxStreamCmds)
    \/ ActorCommand(TRUE)
    \/ Tick

SpecStream == Init /\ [][NextStream]_vars

(***************************************************************************)
(* The actor fed with requests it has to turn down: names outside the      *)
(* command table, argument counts outside it, text where a number belongs  *)
(***************************************************************************)
ErrorCommands ==
    { Cmd(<<"nosuch", "K">>),
      Cmd(<<"ECHO">>), Cmd(<<"GET">>), Cmd(<<"SET", "K">>),
      Cmd(<<"SET", "K", "v", "EX">>), Cmd(<<"RPUSH", "K">>), Cmd(<<"LPUSH", "K">>),
      Cmd(<<"LRANGE", "K", "0">>), Cmd(<<"BLPOP", "K">>),
      Cmd(<<"XADD", "S">>), Cmd(<<"XADD", "S", "1-1">>),
      Cmd(<<"XADD", "S", "1-1", "f">>), Cmd(<<"XADD", "S", "1-1", "f", "a", "g">>),
      Cmd(<<"LPOP", "K", "x">>), Cmd(<<"LRANGE", "K", "x", "1">>),
      Cmd(<<"BLPOP", "K", "x">>), Cmd(<<"SET", "K", "v", "EX", "x">>),
      Cmd(<<"XADD", "S", "x-1", "f", "a">>),
      Cmd(<<"RPUSH", "K", "a">>), Cmd(<<"LLEN", "K">>) }

NextErrors ==
    \/ Submit(ErrorCommands, MaxErrorCmds)
    \/ ActorCommand(FALSE)

SpecErrors == Init /\ [][NextErrors]_vars

(***************************************************************************)
(* The server with clients that block on two lists and on a stream         *)
(***************************************************************************)
WaiterCommands ==
    { Cmd(<<"BLPOP", "K", "0">>), Cmd(<<"BLPOP", "J", "1">>),
      Cmd(<<"XREAD", "BLOCK", "1", "STREAMS", "S", "0-0">>),
      Cmd(<<"RPUSH", "K", "a">>) }

NextWaiters ==
    \/ ActorCommand(FALSE)
    \/ ActorTimeout(FALSE)
    \/ \E c \in Conns : ClientWrite(c, MaxWaiterCmds)
    \/ \E c \in Conns : Read(c, WaiterCommands)
    \/ \E c \in Conns : RespondImmediate(c)
    \/ \E c \in Conns : RespondWait(c)
    \/ \E c \in Conns : Receive(c)
    \/ \E c \in Conns : TimeoutElapses(c)
    \/ \E c \in Conns : SendCleanup(c)

SpecWaiters == Init /\ [][NextWaiters]_vars

(***************************************************************************)
(* The server with clients whose BLPOP on either of two lists times out    *)
(***************************************************************************)
CleanupCommands ==
    { Cmd(<<"BLPOP", "K", "1">>), Cmd(<<"BLPOP", "J", "1">>),
      Cmd(<<"RPUSH", "K", "a">>) }

NextCleanup ==
    \/ ActorCommand(FALSE)
    \/ ActorTimeout(FALSE)
    \/ \E c \in Conns : ClientWrite(c, MaxCleanupCmds)
    \/ \E c \in Conns : Read(c, CleanupCommands)
    \/ \E c \in Conns : RespondImmediate(c)
    \/ \E c \in Conns : RespondWait(c)
    \/ \E c \in Conns : Receive(c)
    \/ \E c \in Conns : TimeoutElapses(c)
    \/ \E c \in Conns : SendCleanup(c)

SpecCleanup == Init /\ [][NextCleanup]_vars

(***************************************************************************)
(* The actor fed with XREAD BLOCK over two streams                         *)
(***************************************************************************)
MultiCommands ==
    { Cmd(<<"XADD", "S", "1-1", "f", "a">>), Cmd(<<"XADD", "T", "1-1", "f", "a">>),
      Cmd(<<"XREAD", "BLOCK", "1", "STREAMS", "S", "T", "0-0", "0-0">>),
      Cmd(<<"XREAD", "BLOCK", "1", "STREAMS", "S", "T", "1-1", "0-0">>),
      Cmd(<<"XREAD", "BLOCK", "1", "STREAMS", "S", "T", "0-0", "$">>),
      Cmd(<<"XREAD", "BLOCK", "1", "STREAMS", "S", "0-0">>) }

NextMulti ==
    \/ Submit(MultiCommands, MaxMultiCmds)
    \/ ActorCommand(FALSE)

SpecMulti == Init /\ [][NextMulti]_vars

(***************************************************************************)
(* The actor fed with XADD whose id is well formed or not                  *)
(***************************************************************************)
HintCommands ==
    { Cmd(<<"XADD", "S", hint, "f", "a">>) :
        hint \in {"1", "-1", "x-1", "1-x", "x", "1-1", "0-1", "1-*"} }

NextHints ==
    \/ Submit(HintCommands, MaxHintCmds)
    \/ ActorCommand(FALSE)

SpecHints == Init /\ [][NextHints]_vars

(***************************************************************************)
(* The actor fed with XADD and XRANGE                                      *)
(***************************************************************************)
RangeCommands ==
    { Cmd(<<"XADD", "S", "1-1", "f", "a">>), Cmd(<<"XADD", "S", "1-2", "f", "a">>),
      Cmd(<<"XADD", "S", "2-0", "f", "a">>),
      Cmd(<<"XRANGE", "S", "1-2", "2-0">>), Cmd(<<"XRANGE", "S", "-", "+">>),
      Cmd(<<"XRANGE", "S", "1-2", "+">>), Cmd(<<"XRANGE", "S", "-", "1-1">>),
      Cmd(<<"XRANGE", "S", "2-0", "1-1">>), Cmd(<<"XRANGE", "T", "-", "+">>) }

NextRange ==
    \/ Submit(RangeCommands, MaxRangeCmds)
    \/ ActorCommand(FALSE)

SpecRange == Init /\ [][NextRange]_vars

(***************************************************************************)
(* The server with its scheduling: the actor task and the connection       *)
(* tasks are polled while they can step, and a timer that was set fires;   *)
(* a client need not write.                                                *)
(***************************************************************************)
BlockingCommands ==
    { Cmd(<<"BLPOP", "K", "1">>), Cmd(<<"BLPOP", "K", "-1">>),
      Cmd(<<"RPUSH", "K", "a">>),
      Cmd(<<"XREAD", "BLOCK", "1", "STREAMS", "S", "0-0">>),
      Cmd(<<"XADD", "S", "1-1", "f", "a">>) }

NextBlocking ==
    \/ ActorCommand(FALSE)
    \/ ActorTimeout(FALSE)
    \/ \E c \in Conns : ClientWrite(c, MaxBlockingCmds)
    \/ \E c \in Conns : Read(c, BlockingCommands)
    \/ \E c \in Conns : RespondImmediate(c)
    \/ \E c \in Conns : RespondWait(c)
    \/ \E c \in Conns : WaitPanics(c)
    \/ \E c \in Conns : Receive(c)
    \/ \E c \in Conns : TimeoutElapses(c)
    \/ \E c \in Conns : SendCleanup(c)

\* the actor task takes the message at the head of its channel: of the
\* steps of the server, the two of the actor and no other
ActorStep ==
    /\ actor_alive
    /\ mailbox # <<>>
    /\ mailbox' = Tail(mailbox)

\* the task of connection c: the step it is suspended at
ConnectionStep(c) ==
    \/ Read(c, BlockingCommands)
    \/ RespondImmediate(c)
    \/ RespondWait(c)
    \/ WaitPanics(c)
    \/ Receive(c)
    \/ TimeoutElapses(c)
    \/ SendCleanup(c)

FairBlocking ==
    /\ WF_mailbox(ActorStep)
    /\ \A c \in Conns : WF_vars(ConnectionStep(c))

SpecBlocking == Init /\ [][NextBlocking]_vars /\ FairBlocking

\* the same scheduling with a request that names no id among the requests
AnsweringCommands ==
    { Cmd(<<"RPUSH", "K", "a">>), Cmd(<<"BLPOP", "K", "1">>),
      Cmd(<<"XADD", "S", "1-1", "f", "a">>), Cmd(<<"XADD", "S">>) }

NextAnswering ==
    \/ ActorCommand(FALSE)
    \/ ActorTimeout(FALSE)
    \/ \E c \in Conns : ClientWrite(c, MaxAnswerCmds)
    \/ \E c \in Conns : Read(c, AnsweringCommands)
    \/ \E c \in Conns : RespondImmediate(c)
    \/ \E c \in Conns : RespondWait(c)
    \/ \E c \in Conns : Receive(c)
    \/ \E c \in Conns : TimeoutElapses(c)
    \/ \E c \in Conns : SendCleanup(c)

SpecAnswering == Init /\ [][NextAnswering]_vars /\ WF_mailbox(ActorStep)

\* the id hints the clients of SpecIds give to XADD: explicit, with a
\* sequence number to be chosen, wholly to be chosen, and the greatest
\* sequence number there is
IdHints ==
    {"0-0", "0-1", "0-*", "1-0", "1-1", "1-*", "2-*", "*", "*-1",
     "1-340282366920938463463374607431768211455"}

IdCommands == { Cmd(<<"XADD", "S", id, "f", "a">>) : id \in IdHints }

NextIds ==
    \/ Submit(IdCommands, MaxIdCmds)
    \/ ActorCommand(FALSE)
    \/ Tick

SpecIds == Init /\ [][NextIds]_vars

\* the indices and counts the clients of SpecLists give
ListIndices ==
    {"-4", "-3", "-2", "-1", "0", "1", "2", "3", "4",
     "170141183460469231731687303715884105727"}

ListCommands ==
    { Cmd(<<"RPUSH", "K", "a">>), Cmd(<<"LPUSH", "K", "b">>),
      Cmd(<<"LPUSH", "K", "c", "b", "a">>), Cmd(<<"LPUSH", "K">>),
      Cmd(<<"BLPOP", "K", "0">>), Cmd(<<"LPOP", "K">>) }
    \cup { Cmd(<<"LPOP", "K", amount>>) : amount \in {"-1", "0", "1", "2", "4"} }
    \cup { Cmd(<<"LRANGE", "K", start, end>>) : start, end \in ListIndices }

NextLists ==
    \/ Submit(ListCommands, MaxListCmds)
    \/ ActorCommand(FALSE)

SpecLists == Init /\ [][NextLists]_vars

\* the durations the clients of SpecKeys give to SET
Durations == {"0", "1", "340282366920938463463374607431768211455"}

KeyCommands ==
    { Cmd(<<"SET", "K", "a">>), Cmd(<<"SET", "K", "b", "XX", "1">>),
      Cmd(<<"GET", "K">>), Cmd(<<"GET", "J">>),
      Cmd(<<"TYPE", "K">>), Cmd(<<"TYPE", "J">>),
      Cmd(<<"RPUSH", "K", "a">>), Cmd(<<"LPOP", "K">>),
      Cmd(<<"XADD", "K", "1-1", "f", "a">>), Cmd(<<"XADD", "J", "0-0", "f", "a">>) }
    \cup { Cmd(<<"SET", "K", "b", unit, duration>>) :
               unit \in {"EX", "PX"}, duration \in Durations }

NextKeys ==
    \/ Submit(KeyCommands, MaxKeyCmds)
    \/ ActorCommand(FALSE)
    \/ Tick

SpecKeys == Init /\ [][NextKeys]_vars

(***************************************************************************)
(* The decoder at work on the bytes of a peer (parser.rs, main.rs:57-65)   *)
(***************************************************************************)
\* all byte sequences of a length up to n over an alphabet
BytesUpTo(alphabet, n) == UNION {[1..k -> alphabet] : k \in 0..n}

\* the values a peer of SpecCodec encodes: every kind but null, bulk strings
\* of any bytes, arrays of them and arrays of arrays
CodecIntegers == {0 - 12, 0 - 1, 0, 7, 10}
Leaves ==
    {SimpleString(text) : text \in BytesUpTo({"a"}, MaxPayload)}
    \cup {SimpleError(text) : text \in BytesUpTo({"a"}, MaxPayload)}
    \cup {Integer(n) : n \in CodecIntegers}
    \cup {BulkString(data) : data \in BytesUpTo({"a", CR, LF}, MaxPayload)}
Elements ==
    {SimpleString(<<"a">>), SimpleError(<<"a">>), Integer(7), BulkString(<<>>),
     BulkString(<<"a">>), BulkString(CRLF)}
FlatArrays == {Array(items) : items \in BytesUpTo(Elements, MaxArrayLen)}
CodecValues ==
    Leaves \cup FlatArrays
    \cup {Array(<<inner>>) : inner \in FlatArrays}
    \cup {Array(<<inner, BulkString(<<"a">>)>>) : inner \in FlatArrays}

\* the request arrays the peers of SpecPipeline send: arrays of bulk strings
RequestWords == {<<"a">>, CRLF}
Requests ==
    {Array(<<BulkString(w)>>) : w \in RequestWords}
    \cup {Array(<<BulkString(w), BulkString(x)>>) : w, x \in RequestWords}

\* the peer has written the encoding of its values, one after the other
InitPeer(pipelines) ==
    /\ InitServer
    /\ frames \in pipelines
    /\ wire = concat([i \in 1..Len(frames) |-> encode(frames[i])])
    /\ bytes = <<>>
    /\ parsed = <<>>
    /\ decoder_alive = TRUE

InitCodec == InitPeer({<<value>> : value \in CodecValues})
InitPipeline == InitPeer(UNION {[1..n -> Requests] : n \in 1..MaxFrames})

\* stream.read_buf(&mut buffer): some of the bytes written arrive
ReadBuf ==
    /\ decoder_alive
    /\ \E read_length \in 1..Len(wire) :
          /\ bytes' = bytes \o SubSeq(wire, 1, read_length)
          /\ wire' = advance(wire, read_length)
    /\ UNCHANGED <<frames, parsed, decoder_alive, server_vars>>

\* parse_resp(&mut buffer) is called on what the buffer holds
ParseResp ==
    /\ decoder_alive
    /\ Len(parsed) < MaxDecodes
    /\ LET out == parse_resp(bytes) IN
          /\ parsed' = Append(parsed, [call |-> "parse_resp", input |-> bytes,
                                       wire |-> wire, out |-> out])
          /\ bytes' = out.buffer
          /\ decoder_alive' = ~out.panic
    /\ UNCHANGED <<frames, wire, server_vars>>

NextCodec == ReadBuf \/ ParseResp

SpecCodec == InitCodec /\ [][NextCodec]_vars
SpecPipeline == InitPipeline /\ [][NextCodec]_vars

(***************************************************************************)
(* The decoder on bytes that need not be the encoding of a value           *)
(***************************************************************************)
\* a type byte, a size line, a payload and what follows it, each whole,
\* cut short or altered
RawSizes == {<<>>, <<"0">>, <<"1">>, <<"2">>, <<"3">>, <<"-", "1">>}
RawBreaks == {CRLF, <<CR>>, <<LF>>, <<>>}
RawFrames ==
    {<<type>> \o size \o break \o payload \o end \o rest :
        type \in {"$", "*"}, size \in RawSizes, break \in RawBreaks,
        payload \in BytesUpTo({"a"}, MaxPayload), end \in RawBreaks,
        rest \in {<<>>, <<"$", "0">> \o CRLF \o CRLF}}

\* arrays in arrays, as a peer encodes them
NestedFrames ==
    {encode(Array(<<BulkString(<<"a">>), inner, BulkString(<<"a">>)>>)) :
        inner \in FlatArrays}
    \cup {encode(Array(<<inner>>)) : inner \in FlatArrays}

InitRaw ==
    /\ InitServer
    /\ frames = <<>>
    /\ wire = <<>>
    /\ bytes \in RawFrames \cup NestedFrames
    /\ parsed = <<>>
    /\ decoder_alive = TRUE

\* parse_bulk_string(&mut buffer) is called on a buffer that starts with `$`
ParseBulkString ==
    /\ decoder_alive
    /\ Len(parsed) < MaxDecodes
    /\ bytes # <<>> /\ bytes[1] = "$"
    /\ LET out == parse_bulk_string(bytes) IN
          /\ parsed' = Append(parsed, [call |-> "parse_bulk_string", input |-> bytes,
                                       wire |-> wire, out |-> out])
          /\ bytes' = out.buffer
          /\ decoder_alive' = ~out.panic
    /\ UNCHANGED <<frames, wire, server_vars>>

NextRaw == ParseResp \/ ParseBulkString

SpecRaw == InitRaw /\ [][NextRaw]_vars

\* well-framed commands of the command table, with few, many and odd arguments
TableCommands ==
    { Cmd(<<"PING">>), Cmd(<<"ECHO">>), Cmd(<<"GET">>), Cmd(<<"SET", "K">>),
      Cmd(<<"TYPE">>), Cmd(<<"nosuch", "K">>), Cmd(<<>>),
      Cmd(<<"RPUSH", "K", "a">>), Cmd(<<"LLEN", "K">>),
      Cmd(<<"LPOP", "K", "0">>), Cmd(<<"LPOP", "K", "2">>), Cmd(<<"LPOP", "K", "-1">>),
      Cmd(<<"LRANGE", "K", "0">>), Cmd(<<"LRANGE", "K", "2", "1">>),
      Cmd(<<"BLPOP", "K">>),
      Cmd(<<"XADD", "S", "1-1", "f", "a">>), Cmd(<<"XADD", "S">>),
      Cmd(<<"XRANGE", "S">>), Cmd(<<"XRANGE", "S", "0-1">>),
      Cmd(<<"XRANGE", "S", "2-0", "1-0">>), Cmd(<<"XRANGE", "S", "-", "+">>),
      Cmd(<<"XREAD", "BLOCK", "1">>), Cmd(<<"XREAD", "STREAMS", "S", "0-0">>) }

NextTable ==
    \/ Submit(TableCommands, MaxTableCmds)
    \/ ActorCommand(FALSE)

SpecTable == Init /\ [][NextTable]_vars

(***************************************************************************)
(* Properties of the running server                                        *)
(***************************************************************************)
QueueOf(s, k) == IF Has(s.blpop_waiting_queue, k) THEN s.blpop_waiting_queue[k] ELSE <<>>
ListOf(s, k) == IF Has(s.lists, k) THEN s.lists[k] ELSE <<>>
Elems(seq) == {seq[i] : i \in 1..Len(seq)}
Word(message, i) == message.val[i].val[1]

\* the actor's last message was the command `name` on key k
DidCommand(name, k) ==
    /\ done.msg.kind = "SendMessage"
    /\ Len(done.msg.message.val) >= 2
    /\ Word(done.msg.message, 1) = name
    /\ Word(done.msg.message, 2) = k

DidPush(k) == DidCommand("RPUSH", k) \/ DidCommand("LPUSH", k)
PushedValues == bulk_values(Tail(done.msg.message.val))
\* the list a push of PushedValues makes of an empty list
ListAfterPush ==
    IF Word(done.msg.message, 1) = "RPUSH" THEN PushedValues ELSE Reverse(PushedValues)

\* the keys some client has blocked on
BlockedKeys == DOMAIN done.before.blpop_waiting_queue

\* the actor's last message pushed exactly one element to k, whose list was
\* empty and which had waiters
C1_Case(k) ==
    /\ DidPush(k)
    /\ Len(PushedValues) = 1
    /\ ListOf(done.before, k) = <<>>
    /\ QueueOf(done.before, k) # <<>>

\* no channel but c1's receives anything, and c2..cW stay queued in order
C1_OthersWait(k) ==
    LET c1 == Head(QueueOf(done.before, k)) IN
    /\ \A id \in (DOMAIN done.before.channel) \ {c1} :
          channel[id].value = done.before.channel[id].value
    /\ QueueOf(Store, k) = Tail(QueueOf(done.before, k))

\* C1 as stated: after one element is pushed to a key with waiters c1..cW and
\* an empty list, c1's channel has received [K, element], no other channel
\* has received anything and c2..cW are still queued in their order.
C1_Original ==
    \A k \in BlockedKeys : C1_Case(k) =>
        /\ channel[Head(QueueOf(done.before, k))].value =
               Some(Array(<<BulkString(k), BulkString(PushedValues[1])>>))
        /\ C1_OthersWait(k)

\* C1 as amended: c1's channel receives [K, element] when c1's receiver
\* still exists; when c1 has timed out and its receiver is dropped, no
\* channel receives the element.  In both cases c2..cW stay queued in order.
C1_Amended ==
    \A k \in BlockedKeys : C1_Case(k) =>
        LET c1 == Head(QueueOf(done.before, k)) IN
        /\ channel[c1].value =
               IF done.before.channel[c1].receiver
               THEN Some(Array(<<BulkString(k), BulkString(PushedValues[1])>>))
               ELSE None
        /\ C1_OthersWait(k)

\* two waiters, the first alive, and one element pushed
C1_Witness ==
    \E k \in BlockedKeys :
        /\ C1_Case(k)
        /\ Len(QueueOf(done.before, k)) >= 2
        /\ done.before.channel[Head(QueueOf(done.before, k))].receiver

\* a waiter still queued on k whose receiver exists and has nothing yet
StillWaiting(s, id, k) ==
    /\ id \in Elems(QueueOf(s, k))
    /\ s.channel[id].receiver
    /\ s.channel[id].value = None

\* C2: a client B that blocked on K after client A is never given an element
\* of K, by a wake-up or by an immediate BLPOP reply, while A, not timed
\* out, has been given none.
C2_NoOvertaking ==
    /\ \A k \in DOMAIN blpop_waiting_queue : \A A, B \in DOMAIN channel :
          ~ /\ A < B
            /\ StillWaiting(Store, A, k)
            /\ channel[B].value # None
            /\ channel[B].value[1].val[1] = BulkString(k)
    /\ \A k \in BlockedKeys :
          ~ /\ DidCommand("BLPOP", k)
            /\ done.resp.kind = "Immediate"
            /\ done.resp.value.type = "Array"
            /\ \E A \in DOMAIN done.before.channel : StillWaiting(done.before, A, k)

\* C3: whenever the actor is between two messages, no key has both a
\* non-empty list and a queued waiter.
C3_ListOrQueueEmpty ==
    \A k \in DOMAIN blpop_waiting_queue :
        ~(blpop_waiting_queue[k] # <<>> /\ ListOf(Store, k) # <<>>)

\* the receiver of id was dropped by its timeout
TimedOut(id) == ~channel[id].receiver /\ channel[id].value = None

\* the Cleanup of (key, id) is still to be sent or still in the mailbox
CleanupUnderWay(key, id) ==
    \/ \E c \in Conns : pc[c] = "cleanup" /\ ticket[c].client_id = id
    \/ \E i \in 1..Len(mailbox) :
          /\ mailbox[i].kind = "SendTimeout"
          /\ mailbox[i].key = key
          /\ mailbox[i].identifier = id

\* C4: a BLPOP waiter whose wait-ticket timed out is still in the queue of
\* its key only while its Cleanup message, naming that key and its
\* client_id, is to be sent or in the mailbox: once the actor has handled
\* the message the waiter is in no queue.
C4_TimeoutCleanup ==
    \A k \in DOMAIN blpop_waiting_queue : \A id \in Elems(blpop_waiting_queue[k]) :
        TimedOut(id) => CleanupUnderWay(Some(k), id)

\* the actor has handled the Cleanup of a waiter that was queued
C4_Witness ==
    /\ done.msg.kind = "SendTimeout"
    /\ done.msg.key # None
    /\ done.msg.identifier \in Elems(QueueOf(done.before, done.msg.key[1]))
    /\ done.msg.identifier \notin Elems(QueueOf(Store, done.msg.key[1]))
    /\ TimedOut(done.msg.identifier)

\* the actor's last message pushed values to k, whose list was empty and
\* which had a waiter
C6_Case(k) ==
    /\ DidPush(k)
    /\ Len(PushedValues) >= 1
    /\ ListOf(done.before, k) = <<>>
    /\ QueueOf(done.before, k) # <<>>

C6_ListAndReply(k) ==
    /\ ListOf(Store, k) = Tail(ListAfterPush)
    /\ done.resp = Immediate(Integer(Len(ListAfterPush)))

\* C6 as stated: the head waiter C1 is given [K, head of the list after the
\* push], that element leaves the list, and the pusher is told the length
\* of the list after the push and before the removal.
C6_Original ==
    \A k \in BlockedKeys : C6_Case(k) =>
        /\ channel[Head(QueueOf(done.before, k))].value =
               Some(Array(<<BulkString(k), BulkString(Head(ListAfterPush))>>))
        /\ C6_ListAndReply(k)

\* C6 as amended: as stated when C1's receiver still exists; when C1 has
\* timed out C1 is given nothing (its reply is the null array), and the
\* rest stands.
C6_Amended ==
    \A k \in BlockedKeys : C6_Case(k) =>
        LET c1 == Head(QueueOf(done.before, k)) IN
        /\ channel[c1].value =
               IF done.before.channel[c1].receiver
               THEN Some(Array(<<BulkString(k), BulkString(Head(ListAfterPush))>>))
               ELSE None
        /\ C6_ListAndReply(k)

\* several values pushed to a key whose head waiter is alive
C6_Witness ==
    \E k \in BlockedKeys :
        /\ C6_Case(k)
        /\ Len(PushedValues) >= 2
        /\ done.before.channel[Head(QueueOf(done.before, k))].receiver

\* C8: a connection task that waits for more bytes of its client has no
\* complete request left undecoded in its buffer.
C8_NoRequestLeftInBuffer ==
    \A c \in Conns : (pc[c] = "read" /\ socket[c] = 0) => buffer[c] = 0

\* C5: an XREAD BLOCK waiter whose wait-ticket timed out is still in the
\* stream-waiter registry only while its Cleanup message, naming no key and
\* its client_id, is to be sent or in the mailbox: once the actor has
\* handled the message the registry has no waiter with that client_id.
C5_XreadTimeoutCleanup ==
    \A id \in DOMAIN xread_waiting_clients :
        TimedOut(id) => CleanupUnderWay(None, id)

(***************************************************************************)
(* Serial execution of the recorded messages                               *)
(***************************************************************************)
\* what serial execution determines: the maps, the identifier counter and
\* what each waiter's channel was sent
Outcome(s) ==
    [key_types |-> s.key_types, streams |-> s.streams, keys |-> s.keys,
     lists |-> s.lists, blpop_waiting_queue |-> s.blpop_waiting_queue,
     xread_waiting_clients |-> s.xread_waiting_clients,
     NEXT_CLIENT_ID |-> s.NEXT_CLIENT_ID,
     sent |-> [id \in DOMAIN s.channel |-> s.channel[id].value]]

\* store s at the time of entry e, the receivers in e.dropped gone
AtEntry(s, e) ==
    [s EXCEPT !.now = e.now,
              !.channel = [id \in DOMAIN s.channel |->
                              [s.channel[id] EXCEPT !.receiver = id \notin e.dropped]]]

RECURSIVE Replay(_, _)
\* the first n recorded messages executed one after the other from the
\* empty store, a Cleanup message taking its waiter out of the queue.  With
\* drops, a message finds dropped the receivers that were when the actor
\* took it; without, a timeout takes effect with its Cleanup message and a
\* queued waiter can always be sent to.
Replay(n, drops) ==
    IF n = 0 THEN [s |-> InitStore, replies |-> <<>>]
    ELSE
      LET prev == Replay(n - 1, drops)
          e == log[n]
          s == IF drops THEN AtEntry(prev.s, e) ELSE [prev.s EXCEPT !.now = e.now]
      IN
      IF e.msg.kind = "SendMessage"
      THEN LET out == handle_command(e.msg.message, s)
           IN [s |-> out.s, replies |-> Append(prev.replies, actor_reply(out.r))]
      ELSE [s |-> actor_cleanup(s, e.msg.key, e.msg.identifier), replies |-> prev.replies]

\* the replies the actor gave to the recorded commands
LoggedReplies ==
    LET IsCommand(e) == e.msg.kind = "SendMessage"
        commands == SelectSeq(log, IsCommand)
    IN [i \in 1..Len(commands) |-> commands[i].resp]

\* the actor has handled every message sent to it
Quiet == mailbox = <<>> /\ \A c \in Conns : pc[c] # "cleanup"

\* a connection has at most one command with the actor, and waits for its
\* reply: the actor receives a connection's commands in the order issued
OneCommandAtATime ==
    \A c \in Conns :
        LET mine == {i \in 1..Len(mailbox) :
                        mailbox[i].kind = "SendMessage" /\ mailbox[i].conn = c}
        IN /\ Cardinality(mine) <= 1
           /\ mine # {} => (pc[c] = "await_reply" /\ reply[c] = None)

MapOfTag(tag) ==
    CASE tag = "Key" -> keys [] tag = "List" -> lists [] tag = "Stream" -> streams

\* C9: each key present in the string map, the list map or the stream map is
\* in exactly one of them, and its type tag names that map.
C9_TypeTag ==
    \A k \in (DOMAIN keys) \cup (DOMAIN lists) \cup (DOMAIN streams) :
        /\ Cardinality({m \in {"Key", "List", "Stream"} : Has(MapOfTag(m), k)}) = 1
        /\ Has(key_types, k)
        /\ Has(MapOfTag(key_types[k]), k)

(***************************************************************************)
(* The ids of the entries added to a stream                                *)
(***************************************************************************)
StreamIds == {StreamId(ms, seq) : ms \in 0..9, seq \in 0..9}
IdText == [id \in StreamIds |-> stream_id_into(id)]
\* the id a reply of XADD names
IdOf(value) == CHOOSE id \in StreamIds : IdText[id] = value

IsXadd(e, k) ==
    /\ e.msg.kind = "SendMessage"
    /\ Len(e.msg.message.val) >= 2
    /\ Word(e.msg.message, 1) = "XADD"
    /\ Word(e.msg.message, 2) = k
Succeeded(e) == e.resp.kind = "Immediate" /\ e.resp.value.type = "BulkString"

\* the ids of the successful XADDs on k, in the order of the commands
SuccessfulIds(k) ==
    LET Added(e) == IsXadd(e, k) /\ Succeeded(e)
        added == SelectSeq(log, Added)
    IN [i \in 1..Len(added) |-> IdOf(added[i].resp.value)]

\* lexicographic order on (ms, seq)
IdLess(a, b) == a.ms < b.ms \/ (a.ms = b.ms /\ a.seq < b.seq)

\* C10: the ids of the successful XADDs on a stream are strictly increasing
\* in (ms, seq) order and are the ids stored, and a successful id is
\* greater than every id the stream held before.
C10_StreamMonotonic ==
    \A k \in DOMAIN streams :
        LET ids == SuccessfulIds(k) IN
        /\ \A i, j \in 1..Len(ids) : i < j => IdLess(ids[i], ids[j])
        /\ Elems(ids) = DOMAIN streams[k]
        /\ (IsXadd(done, k) /\ Succeeded(done) /\ Has(done.before.streams, k)) =>
              \A old \in DOMAIN done.before.streams[k] :
                  IdLess(old, IdOf(done.resp.value))

\* two XADDs succeeded on a stream and one was rejected
C10_Witness ==
    \E k \in DOMAIN streams :
        /\ Len(SuccessfulIds(k)) >= 2
        /\ \E i \in 1..Len(log) : IsXadd(log[i], k) /\ ~Succeeded(log[i])

\* C11: whatever well-framed command of the command table the actor is
\* given, with any number of arguments and any values, it replies and
\* stays alive for the next message.
C11_ActorStaysAlive == actor_alive

(***************************************************************************)
(* Lists                                                                   *)
(***************************************************************************)
Min(a, b) == IF a <= b THEN a ELSE b
Max(a, b) == IF a >= b THEN a ELSE b
\* the decimal texts the clients give, as integers
Number(text) ==
    IF text = "170141183460469231731687303715884105727" THEN I128Max
    ELSE CHOOSE n \in (0 - 4)..4 : parse_i128(text) = Some(n)

\* the message the actor is about to take is the command `name` on key k
Takes(name, k) ==
    /\ actor_alive
    /\ mailbox # <<>>
    /\ Head(mailbox).kind = "SendMessage"
    /\ Len(Head(mailbox).message.val) >= 2
    /\ Word(Head(mailbox).message, 1) = name
    /\ Word(Head(mailbox).message, 2) = k
    /\ mailbox' = Tail(mailbox)

\* the amount of the LPOP the actor is about to take: 1 when none is given
LpopAmount ==
    IF Len(Head(mailbox).message.val) >= 3
    THEN Number(Word(Head(mailbox).message, 3)) ELSE 1

\* the reply of LPOP for the elements removed
LpopReply(removed) ==
    IF removed = <<>> THEN NullBulkString
    ELSE IF Len(removed) = 1 THEN BulkString(removed[1])
    ELSE Array([i \in 1..Len(removed) |-> BulkString(removed[i])])

\* C12: LPOP(key, amount) on a list of n >= 1 elements removes and replies
\* the first min(amount, n) elements in order and leaves the others in
\* order; on an empty or absent list it replies the null bulk string and
\* removes nothing.
C12_Lpop ==
    [][\A k \in {"K"} : (Takes("LPOP", k) /\ LpopAmount >= 0) =>
          LET list == ListOf(Store, k)
              count == Min(LpopAmount, Len(list))
          IN /\ actor_alive'
             /\ Has(lists', k)
             /\ lists'[k] = SubSeq(list, count + 1, Len(list))
             /\ reply'["c1"] = Some(Immediate(LpopReply(SubSeq(list, 1, count))))]_vars

\* the slice of list that LRANGE(start, end) names
Slice(list, start, end) ==
    LET len == Len(list)
        s1 == IF start < 0 THEN start + len ELSE start
        e1 == IF end < 0 THEN end + len ELSE end
    IN IF s1 > e1 \/ s1 >= len THEN <<>>
       ELSE SubSeq(list, Max(0, s1) + 1, Min(len, e1 + 1))

\* C13: LRANGE(L, s, e) replies the slice L[max(0, s') : min(len, e'+1)],
\* s' and e' being s and e counted from the end when negative, and the
\* empty sequence when s' > e' or s' >= len, for every list and all
\* integers s and e; the actor stays alive.
C13_Lrange ==
    [][\A k \in {"K"} :
          (Takes("LRANGE", k) /\ Len(Head(mailbox).message.val) = 4) =>
          LET slice == Slice(ListOf(Store, k),
                             Number(Word(Head(mailbox).message, 3)),
                             Number(Word(Head(mailbox).message, 4)))
          IN /\ actor_alive'
             /\ reply'["c1"] =
                    Some(Immediate(Array([i \in 1..Len(slice) |-> BulkString(slice[i])])))]_vars

\* the values of a push in the order LPUSH leaves them: last given first
LastFirst(values) == [i \in 1..Len(values) |-> values[Len(values) + 1 - i]]

\* C14: LPUSH(key, [v1..vn]) on a list with contents P replies n + length(P)
\* and leaves [vn, ..., v1] followed by P, less its head element when a
\* waiter was queued on the key and has been served.
C14_Lpush ==
    \A k \in {"K"} : DidCommand("LPUSH", k) =>
        LET P == ListOf(done.before, k)
            pushed == LastFirst(PushedValues) \o P
        IN /\ done.resp = Immediate(Integer(Len(PushedValues) + Len(P)))
           /\ ListOf(Store, k) =
                  IF QueueOf(done.before, k) # <<>> /\ pushed # <<>>
                  THEN Tail(pushed) ELSE pushed

\* [c, b, a] has been pushed onto a list that was not empty
C14_Witness ==
    /\ DidCommand("LPUSH", "K")
    /\ Len(PushedValues) = 3
    /\ ListOf(done.before, "K") # <<>>
    /\ QueueOf(done.before, "K") = <<>>

(***************************************************************************)
(* String keys                                                             *)
(***************************************************************************)
\* the key is in the string map and has not expired by the time now
Live(s, k) ==
    /\ Has(s.keys, k)
    /\ (s.keys[k].expires = None \/ s.keys[k].expires[1] >= s.now)

\* C15: GET(key) at the time now returns the stored bytes exactly when the
\* key is in the string map and has no expiry or an expiry >= now; the
\* store answers KeyExpired when the expiry is < now and KeyNotFound when
\* the key is absent, and both are replied as the null bulk string.
C15_Get ==
    \A k \in {"K", "J"} : DidCommand("GET", k) =>
        LET s == done.before IN
        IF Live(s, k)
        THEN /\ get(s, k) = Ok(s.keys[k].value)
             /\ done.resp = Immediate(BulkString(s.keys[k].value))
        ELSE /\ get(s, k) = IF Has(s.keys, k) THEN Err("KeyExpired")
                                              ELSE Err("KeyNotFound")
             /\ done.resp = Immediate(NullBulkString)

\* GET has returned the value of a key in the millisecond of its expiry
C15_Witness ==
    /\ DidCommand("GET", "K")
    /\ Has(done.before.keys, "K")
    /\ done.before.keys["K"].expires = Some(done.before.now)
    /\ done.before.now > 0
    /\ done.resp = Immediate(BulkString("b"))

\* the milliseconds of a duration given to SET
Millis(unit, text) ==
    (IF text = "340282366920938463463374607431768211455" THEN U128Max
     ELSE CHOOSE n \in 0..3 : parse_u128(text) = Some(n))
    * (IF unit = "EX" THEN 1000 ELSE 1)

\* C16: SET(key, value, expiry?) replaces the string entry of the key: the
\* actor replies OK, afterwards GET returns the new value, the type tag is
\* string, and the stored expiry is now + duration when a duration is given
\* and absent otherwise.
C16_Set ==
    [][\A k \in {"K"} :
          LET words == Head(mailbox).message.val
              value == Word(Head(mailbox).message, 3)
          IN (/\ Takes("SET", k)
              /\ Len(words) \in {3, 5}
              /\ Len(words) = 5 => Word(Head(mailbox).message, 4) \in {"EX", "PX"}) =>
             /\ actor_alive'
             /\ reply'["c1"] = Some(Immediate(SimpleString("OK")))
             /\ Has(keys', k)
             /\ keys'[k].value = value
             /\ keys'[k].expires =
                    IF Len(words) = 5
                    THEN Some(clock + Millis(Word(Head(mailbox).message, 4),
                                             Word(Head(mailbox).message, 5)))
                    ELSE None
             /\ get(Store', k) = Ok(value)
             /\ get_type(Store', k) = "string"]_vars

\* the maps that hold the key, by the name TYPE gives them
Holders(s, k) ==
    {tag \in {"string", "list", "stream"} :
        Has(CASE tag = "string" -> s.keys [] tag = "list" -> s.lists
              [] tag = "stream" -> s.streams, k)}

\* the key holds a value in one of the three maps: a string, a list that
\* is not empty, or a stream
HoldsValue(s, k) == Has(s.keys, k) \/ ListOf(s, k) # <<>> \/ Has(s.streams, k)

\* C17: TYPE(key) replies none for every key that holds no value in any of
\* the three maps, after any sequence of commands (an XADD rejected for its
\* id on a key that never existed included), and otherwise names a map that
\* holds the key.
C17_Type ==
    \A k \in {"K", "J"} : DidCommand("TYPE", k) =>
        IF HoldsValue(done.before, k)
        THEN \E tag \in Holders(done.before, k) :
                 done.resp = Immediate(SimpleString(tag))
        ELSE done.resp = Immediate(SimpleString("none"))

(***************************************************************************)
(* The wire codec                                                          *)
(***************************************************************************)
IsPrefix(p, whole) == Len(p) <= Len(whole) /\ p = SubSeq(whole, 1, Len(p))
IsProperPrefix(p, whole) == Len(p) < Len(whole) /\ IsPrefix(p, whole)

\* C18: for every non-null RESP value v (simple string, simple error,
\* integer, bulk string of any bytes, arrays nesting those), decoding the
\* bytes of encode(v) yields v and takes exactly those bytes off the buffer.
C18_RoundTrip ==
    \A i \in 1..Len(parsed) :
        parsed[i].input = encode(frames[1]) =>
            /\ parsed[i].out.ok
            /\ parsed[i].out.v[1].type = frames[1].type
            /\ parsed[i].out.v[1] = frames[1]
            /\ parsed[i].out.buffer = <<>>

\* C19: for every value v and every proper prefix p of encode(v), the
\* decoder called on a buffer holding p returns InvalidFormat, without a
\* panic and without a value, and leaves the buffer holding p.
C19_IncompleteFrame ==
    \A i \in 1..Len(parsed) :
        IsProperPrefix(parsed[i].input, encode(frames[1])) =>
            /\ ~parsed[i].out.panic
            /\ ~parsed[i].out.ok
            /\ parsed[i].out.buffer = parsed[i].input

\* the first call of the decoder found all the bytes of the peer's requests
WholePipeline ==
    /\ parsed # <<>>
    /\ parsed[1].wire = <<>>
    /\ parsed[1].input = concat([i \in 1..Len(frames) |-> encode(frames[i])])

\* C20: for request arrays v1..vn, on a buffer holding encode(v1) ++ ... ++
\* encode(vn) the i-th call of the decoder yields vi and takes exactly the
\* bytes of encode(vi); the buffer is empty after the n-th call.
C20_Pipeline ==
    WholePipeline =>
        \A i \in 1..Min(Len(parsed), Len(frames)) :
            /\ parsed[i].out.ok
            /\ parsed[i].out.v[1] = frames[i]
            /\ parsed[i].input = encode(frames[i]) \o parsed[i].out.buffer
            /\ i = Len(frames) => parsed[i].out.buffer = <<>>

(***************************************************************************)
(* Frames that are not the encoding of a request                           *)
(***************************************************************************)
\* the calls of one parse function
Calls(name) == {i \in 1..Len(parsed) : parsed[i].call = name}

\* an array that has an array among its elements, each in its position
IsNested(value) ==
    /\ value.type = "Array"
    /\ \E i \in 1..Len(value.val) : value.val[i].type = "Array"

\* C21: an array header with the element count -1 decodes to the null
\* array Array(None), the count 0 to the empty array, and an element that
\* starts with `*` is decoded as a nested array in its position.
C21_NullAndNestedArrays ==
    \A i \in Calls("parse_resp") :
        LET input == parsed[i].input
            out == parsed[i].out
        IN /\ input = <<"*", "-", "1">> \o CRLF =>
                 out.ok /\ out.v[1] = NullArray /\ out.buffer = <<>>
           /\ input = <<"*", "0">> \o CRLF =>
                 out.ok /\ out.v[1] = Array(<<>>) /\ out.buffer = <<>>
           /\ \A v \in {Array(<<BulkString(<<"a">>), inner, BulkString(<<"a">>)>>) :
                            inner \in {Array(<<>>), Array(<<BulkString(<<"a">>)>>)}} :
                 input = encode(v) => out.ok /\ out.v[1] = v /\ out.buffer = <<>>

\* the size line of a buffer that starts with `$`: the bytes after the type
\* byte that are digits or a sign, and what follows them
SizeText(frame) ==
    LET stops == {i \in 2..Len(frame) : frame[i] \notin DigitBytes \cup {"-"}}
        stop == IF stops = {} THEN Len(frame) + 1
                ELSE CHOOSE i \in stops : \A j \in stops : i <= j
    IN [text |-> SubSeq(frame, 2, stop - 1), rest |-> advance(frame, stop - 1)]

\* the framing errors of a bulk string: the length line lacks its CR LF, a
\* negative length with a payload after it, a payload without its CR LF, a
\* length other than the number of bytes before the trailing CR LF
FramingError(frame) ==
    LET line == SizeText(frame)
        data == advance(line.rest, 2)
    IN \/ ~IsPrefix(CRLF, line.rest)
       \/ /\ line.text # <<>> /\ line.text[1] = "-"
          /\ data # <<>>
       \/ /\ line.text # <<>>
          /\ \A i \in 1..Len(line.text) : line.text[i] \in DigitBytes
          /\ LET size == decimal(line.text) IN
                \/ Len(data) < size + 2
                \/ SubSeq(data, size + 1, size + 2) # CRLF

\* C22: decoding a bulk string with a framing error returns InvalidFormat
\* and takes no byte off the buffer.
C22_BulkStringFraming ==
    \A i \in Calls("parse_bulk_string") :
        FramingError(parsed[i].input) =>
            /\ ~parsed[i].out.ok
            /\ ~parsed[i].out.panic
            /\ parsed[i].out.buffer = parsed[i].input

\* the decoder has refused a bulk string that says 1 and holds 2 bytes
C22_Witness ==
    \E i \in Calls("parse_bulk_string") :
        /\ parsed[i].input = <<"$", "1">> \o CRLF \o <<"a", "a">> \o CRLF
        /\ ~parsed[i].out.ok

(***************************************************************************)
(* The id XADD gives an entry                                              *)
(***************************************************************************)
\* the top id of a stream, (0, 0) when it holds no entry
TopId(s, k) ==
    IF Has(s.streams, k) /\ DOMAIN s.streams[k] # {}
    THEN CHOOSE id \in DOMAIN s.streams[k] :
             \A other \in DOMAIN s.streams[k] : other = id \/ IdLess(other, id)
    ELSE StreamId(0, 0)

\* the hint of an id argument: <<ms, seq>>, each a number or None for `*`
Hint(message) ==
    IF Word(message, 3) = "*" THEN <<None, None>>
    ELSE extract_stream_id_values(message.val[3]).v[1]

\* the id a hint resolves to, in the integers
ResolvedId(last, hint, wallclock_ms) ==
    LET ms == hint[1]
        seq == hint[2]
        now == Max(wallclock_ms, last.ms)
    IN IF ms # None /\ seq # None THEN StreamId(ms[1], seq[1])
       ELSE IF ms # None
       THEN IF ms[1] = last.ms THEN StreamId(ms[1], last.seq + 1)
            ELSE IF ms[1] = 0 THEN StreamId(0, 1)
            ELSE StreamId(ms[1], 0)
       ELSE IF now = last.ms THEN StreamId(last.ms, last.seq + 1)
            ELSE IF now = 0 THEN StreamId(0, 1)
            ELSE StreamId(now, 0)

IdsOf(map, k) == IF Has(map, k) THEN DOMAIN map[k] ELSE {}

\* C23: XADD resolves its id hint against last, the top id of the stream:
\* (ms, seq) verbatim; (ms, *) to (ms, last.seq+1) if ms = last.ms, else
\* (0,1) if ms = 0, else (ms, 0); (*, *) with now = max(wallclock, last.ms)
\* to (last.ms, last.seq+1) if now = last.ms, else (0,1) if now = 0, else
\* (now, 0); the entry is inserted under the resolved id when that id is
\* above (0,0) and above last; (*, seq) is rejected and nothing inserted.
C23_IdResolution ==
    [][\A k \in {"S"} :
          (Takes("XADD", k) /\ Len(Head(mailbox).message.val) = 5) =>
          LET hint == Hint(Head(mailbox).message)
              last == TopId(Store, k)
              id == ResolvedId(last, hint, clock)
          IN IF hint[1] = None /\ hint[2] # None
             THEN /\ actor_alive'
                  /\ streams' = streams
                  /\ reply'["c1"] # None
                  /\ reply'["c1"][1].value.type = "SimpleError"
             ELSE /\ actor_alive'
                  /\ IdsOf(streams', k) =
                        IF IdLess(StreamId(0, 0), id) /\ IdLess(last, id)
                        THEN IdsOf(streams, k) \cup {id}
                        ELSE IdsOf(streams, k)]_vars

\* the id the last XADD was to add, had it a hint that resolves
DoneId(k) == ResolvedId(TopId(done.before, k), Hint(done.msg.message), done.before.now)
Resolves(message) == ~(Hint(message)[1] = None /\ Hint(message)[2] # None)

\* C24: an XADD whose resolved id is below (0,1) is answered `ERR The ID
\* specified in XADD must be greater than 0-0`; one whose resolved id is at
\* least (0,1) and not above the top id of the stream is answered `ERR The
\* ID specified in XADD is equal or smaller than the target stream top
\* item`; neither inserts an entry.
C24_XaddRejection ==
    \A k \in {"S"} :
        (DidCommand("XADD", k) /\ Resolves(done.msg.message)) =>
            LET id == DoneId(k)
                top == TopId(done.before, k)
            IN /\ IdLess(id, StreamId(0, 1)) =>
                     /\ done.resp = Immediate(SimpleError(
                            "ERR The ID specified in XADD must be greater than 0-0"))
                     /\ streams = done.before.streams
               /\ (~IdLess(id, StreamId(0, 1)) /\ ~IdLess(top, id)) =>
                     /\ done.resp = Immediate(SimpleError(
                            "ERR The ID specified in XADD is equal or smaller than the target stream top item"))
                     /\ streams = done.before.streams

\* an XADD with the explicit id of the top entry has been rejected
C24_Witness ==
    /\ DidCommand("XADD", "S")
    /\ Word(done.msg.message, 3) = "1-1"
    /\ TopId(done.before, "S") = StreamId(1, 1)
    /\ done.resp.value.type = "SimpleError"

(***************************************************************************)
(* One request at a time on a connection                                   *)
(***************************************************************************)
\* the Command messages of connection c the actor has not taken yet
Outstanding(c) ==
    {i \in 1..Len(mailbox) : mailbox[i].kind = "SendMessage" /\ mailbox[i].conn = c}

\* the commands of connection c the actor has handled, in order
Handled(c) ==
    LET OfConn(e) == e.msg.kind = "SendMessage" /\ e.msg.conn = c
    IN SelectSeq(log, OfConn)

\* C25: a connection task has at most one Command message outstanding: it
\* sends its next request only after the final reply to the last one (a
\* blocking reply or its timeout included) has been written; the replies
\* written to its socket are in the order of its requests.
C25_OneRequestAtATime ==
    \A c \in Conns :
        LET handled == Handled(c)
            answered == Len(written[c])
        IN /\ Cardinality(Outstanding(c)) <= 1
           /\ Outstanding(c) # {} =>
                 pc[c] = "await_reply" /\ reply[c] = None /\ Len(handled) = answered
           /\ pc[c] = "read" => Outstanding(c) = {} /\ Len(handled) = answered
           /\ pc[c] # "read" /\ Outstanding(c) = {} => Len(handled) = answered + 1
           /\ \A i \in 1..answered :
                 IF handled[i].resp.kind = "Immediate"
                 THEN written[c][i] = handled[i].resp.value
                 ELSE written[c][i] = NullArray \/ written[c][i].type = "Array"

\* a connection has had the timeout of its BLPOP and then the reply to its
\* next request
C25_Witness ==
    \E c \in Conns : written[c] = <<NullArray, Integer(1)>>

(***************************************************************************)
(* Blocking commands come to an end                                        *)
(***************************************************************************)
\* the actor has registered connection c as a waiter with a timeout
Registered(c) ==
    /\ reply[c] # None
    /\ reply[c][1].kind \in {"WaitForBLPOP", "WaitForXREAD"}
    /\ reply[c][1].timeout # 0

\* C26: a BLPOP or XREAD BLOCK with a non-zero timeout that was registered
\* as a waiter eventually has its reply written on its connection, the data
\* delivered or the null array, whether or not a push or XADD ever happens.
C26_BlockingTerminates ==
    \A c \in Conns : Registered(c) ~> (pc[c] = "read")

(***************************************************************************)
(* Requests the actor turns down                                           *)
(***************************************************************************)
UnknownNames == {Cmd(<<"nosuch", "K">>)}
WrongCounts ==
    { Cmd(<<"ECHO">>), Cmd(<<"GET">>), Cmd(<<"SET", "K">>),
      Cmd(<<"SET", "K", "v", "EX">>), Cmd(<<"RPUSH", "K">>), Cmd(<<"LPUSH", "K">>),
      Cmd(<<"LRANGE", "K", "0">>), Cmd(<<"BLPOP", "K">>),
      Cmd(<<"XADD", "S">>), Cmd(<<"XADD", "S", "1-1", "f">>) }
NonNumeric ==
    { Cmd(<<"LPOP", "K", "x">>), Cmd(<<"LRANGE", "K", "x", "1">>),
      Cmd(<<"BLPOP", "K", "x">>), Cmd(<<"SET", "K", "v", "EX", "x">>),
      Cmd(<<"XADD", "S", "x-1", "f", "a">>) }

\* the actor's last message was one of `commands`
DidOneOf(commands) ==
    done.msg.kind = "SendMessage" /\ done.msg.message \in commands

\* what the handlers made of the actor's last message
LastOutcome == handle_command(done.msg.message, done.before)

\* the actor's last message was answered by an error reply `ERR ..` of one
\* of `errors`, and the store is as it was before
TurnedDown(errors) ==
    /\ ~LastOutcome.panic
    /\ ~LastOutcome.r.ok
    /\ LastOutcome.r.v[1][1] \in errors
    /\ done.resp = Immediate(SimpleError(<<"ERR", LastOutcome.r.v[1]>>))
    /\ Store = done.before

\* C27: a request with an unknown command name, a wrong argument count or
\* text in place of a number is answered by a simple error that begins with
\* ERR, leaves the store as it was, and the actor goes on to serve the next
\* request.
C27_ErrorsAreReplies ==
    /\ actor_alive
    /\ DidOneOf(UnknownNames \cup WrongCounts \cup NonNumeric)
          => TurnedDown({"UnknownCommand", "InvalidInput"})

\* the argument counts outside the command table
OutsideTable ==
    { Cmd(<<"RPUSH", "K">>), Cmd(<<"LPUSH", "K">>), Cmd(<<"ECHO">>),
      Cmd(<<"XADD", "S">>), Cmd(<<"XADD", "S", "1-1">>),
      Cmd(<<"XADD", "S", "1-1", "f">>), Cmd(<<"XADD", "S", "1-1", "f", "a", "g">>),
      Cmd(<<"LRANGE", "K", "0">>), Cmd(<<"SET", "K", "v", "EX">>) }

\* C28: a command called with an argument count outside the command table
\* (RPUSH or LPUSH without a value, ECHO without an argument, XADD with
\* fewer than 4 arguments or an odd number of field/value arguments, LRANGE
\* with fewer than 3, SET with 3) is rejected with InvalidInput and the
\* store is not changed: no list, no type tag, no entry.
C28_ArityChecked ==
    DidOneOf(OutsideTable) => TurnedDown({"InvalidInput"})

(***************************************************************************)
(* Client identifiers and the blocking registry                            *)
(***************************************************************************)
WaitKinds == {"WaitForBLPOP", "WaitForXREAD"}

\* the actor takes a BLPOP or XREAD BLOCK and registers its client
Registers ==
    /\ mailbox # <<>>
    /\ mailbox' = Tail(mailbox)
    /\ done'.msg = Head(mailbox)
    /\ done'.resp.kind \in WaitKinds

\* the identifiers handed out so far: each got its one-shot channel
HandedOut == DOMAIN channel

Occurrences(queue, id) == Cardinality({i \in 1..Len(queue) : queue[i] = id})

\* how often identifier id stands in the blocking registry
Registrations(id) ==
    LET keyed == DOMAIN blpop_waiting_queue
        RECURSIVE InQueues(_)
        InQueues(ks) ==
            IF ks = {} THEN 0
            ELSE LET k == CHOOSE x \in ks : TRUE
                 IN Occurrences(blpop_waiting_queue[k], id) + InQueues(ks \ {k})
    IN InQueues(keyed) + (IF Has(xread_waiting_clients, id) THEN 1 ELSE 0)

WaitingIds ==
    UNION {Elems(blpop_waiting_queue[k]) : k \in DOMAIN blpop_waiting_queue}
        \cup DOMAIN xread_waiting_clients

ListWithPush(k) ==
    IF Word(done.msg.message, 1) = "RPUSH"
    THEN ListOf(done.before, k) \o PushedValues
    ELSE LastFirst(PushedValues) \o ListOf(done.before, k)

\* the actor's last message was a push on k whose head waiter had dropped
\* its receiver
PushToDeadWaiter(k) ==
    /\ DidPush(k)
    /\ QueueOf(done.before, k) # <<>>
    /\ ~done.before.channel[Head(QueueOf(done.before, k))].receiver
    /\ ListWithPush(k) # <<>>

\* C31: when a push wakes the head waiter of K and the send fails because
\* the waiter's receiver was dropped, the element taken from the head of the
\* list is discarded: it is not in the list any more and no channel, of that
\* waiter or of another, has received it.
C31_DeadWaiterDiscards ==
    \A k \in BlockedKeys : PushToDeadWaiter(k) =>
        /\ ListOf(Store, k) = Tail(ListWithPush(k))
        /\ \A id \in DOMAIN done.before.channel :
              channel[id].value = done.before.channel[id].value
        /\ QueueOf(Store, k) = Tail(QueueOf(done.before, k))

\* a push found a timed-out waiter at the head and a live one behind it
C31_Witness ==
    \E k \in BlockedKeys :
        /\ PushToDeadWaiter(k)
        /\ Len(QueueOf(done.before, k)) >= 2
        /\ done.before.channel[QueueOf(done.before, k)[2]].receiver

\* C32: BLPOP on a key whose list is not empty replies at once with
\* [K, first element], removes that element and no other, adds no waiter and
\* hands out no client id; BLPOP on an empty or absent list removes nothing,
\* appends one waiter with a fresh client id at the tail of K's queue and
\* returns a wait-ticket with the timeout, the key and that client id.
C32_BlpopRegistration ==
    \A k \in {"K"} : DidCommand("BLPOP", k) =>
        LET s == done.before
            list == ListOf(s, k)
            id == done.resp.client_id
        IN
        IF list # <<>>
        THEN /\ done.resp = Immediate(Array(<<BulkString(k), BulkString(Head(list))>>))
             /\ lists = [s.lists EXCEPT ![k] = Tail(list)]
             /\ blpop_waiting_queue = s.blpop_waiting_queue
             /\ NEXT_CLIENT_ID = s.NEXT_CLIENT_ID
        ELSE /\ lists = s.lists
             /\ done.resp = WaitForBLPOP(parse_f64(Word(done.msg.message, 3))[1], k, id)
             /\ id \notin DOMAIN s.channel
             /\ \A other \in DOMAIN s.blpop_waiting_queue :
                   id \notin Elems(s.blpop_waiting_queue[other])
             /\ QueueOf(Store, k) = Append(QueueOf(s, k), id)
             /\ \A other \in DOMAIN s.blpop_waiting_queue \ {k} :
                   QueueOf(Store, other) = QueueOf(s, other)

\* BLPOP joined a queue that held a waiter already
C32_Witness ==
    /\ DidCommand("BLPOP", "K")
    /\ ListOf(done.before, "K") = <<>>
    /\ QueueOf(done.before, "K") # <<>>

\* the actor's last message was the Cleanup of waiter id on key k
DidCleanup(k, id) ==
    /\ done.msg.kind = "SendTimeout"
    /\ done.msg.key = Some(k)
    /\ done.msg.identifier = id

\* the queue without the waiter id, the others in their order
Without(queue, id) == SelectSeq(queue, LAMBDA waiter : waiter # id)

\* C33: processing Cleanup(key, client_id) removes the waiter with that
\* client id from the queue of that key and no other waiter, keeps the other
\* waiters of the key in their order, leaves the queues of the other keys and
\* every stored value as they were, and changes nothing when the waiter is not
\* in the queue any more.
C33_CleanupPrecise ==
    \A k \in {"K", "J"} : \A id \in DOMAIN channel : DidCleanup(k, id) =>
        LET s == done.before IN
        /\ QueueOf(Store, k) = Without(QueueOf(s, k), id)
        /\ \A other \in {"K", "J"} \ {k} : QueueOf(Store, other) = QueueOf(s, other)
        /\ lists = s.lists /\ keys = s.keys /\ streams = s.streams
        /\ key_types = s.key_types
        /\ xread_waiting_clients = s.xread_waiting_clients
        /\ NEXT_CLIENT_ID = s.NEXT_CLIENT_ID
        /\ \A w \in DOMAIN s.channel : channel[w].value = s.channel[w].value
        /\ id \notin Elems(QueueOf(s, k)) => QueueOf(Store, k) = QueueOf(s, k)

\* a Cleanup took the first of two waiters of a key out of its queue
C33_Witness ==
    \E k \in {"K", "J"} : \E id \in DOMAIN channel :
        /\ DidCleanup(k, id)
        /\ Len(QueueOf(done.before, k)) >= 2
        /\ Head(QueueOf(done.before, k)) = id

(***************************************************************************)
(* XREAD BLOCK over several streams                                        *)
(***************************************************************************)
\* the actor's last message was XREAD BLOCK
DidXreadBlock ==
    /\ done.msg.kind = "SendMessage"
    /\ Len(done.msg.message.val) >= 6
    /\ Word(done.msg.message, 1) = "XREAD"
    /\ Word(done.msg.message, 2) = "BLOCK"

\* the stream keys and the after ids of the actor's last XREAD BLOCK
XreadPairs ==
    LET words == done.msg.message.val
        half == (Len(words) - 4) \div 2
    IN [i \in 1..half |-> [key |-> words[4 + i].val[1],
                           after |-> words[4 + half + i].val[1]]]

\* the id an after-id text names
AfterId(text) ==
    CASE text = "0-0" -> StreamId(0, 0) [] text = "1-1" -> StreamId(1, 1)

\* stream `key` of store s has an entry newer than the after id, which is
\* not the sentinel
HasNewer(s, pair) ==
    /\ pair.after # "$"
    /\ Has(s.streams, pair.key)
    /\ \E id \in DOMAIN s.streams[pair.key] : id_lt(AfterId(pair.after), id)

\* C34: XREAD BLOCK over several (stream key, after id) pairs replies at
\* once with the collected data when one of the streams, in whichever
\* position, has an entry newer than its after id and its id is not `$`;
\* only otherwise does it register a waiter for all the keys and return a
\* wait-ticket with the timeout in milliseconds.
C34_XreadBlockDecision ==
    DidXreadBlock =>
        LET s == done.before
            pairs == XreadPairs
        IN
        IF \E i \in 1..Len(pairs) : HasNewer(s, pairs[i])
        THEN /\ done.resp.kind = "Immediate"
             /\ xread_waiting_clients = s.xread_waiting_clients
        ELSE /\ done.resp = WaitForXREAD(1, s.NEXT_CLIENT_ID)
             /\ xread_waiting_clients =
                    Insert(s.xread_waiting_clients, s.NEXT_CLIENT_ID,
                           [i \in 1..Len(pairs) |-> pairs[i].key])

(***************************************************************************)
(* XADD: ids that are not ids, and what a rejected XADD leaves behind      *)
(***************************************************************************)
\* ids without a dash, with nothing before the dash, or with a part that is
\* neither `*` nor an unsigned decimal number
MalformedIds == {"1", "-1", "x-1", "1-x", "x"}

\* C35: XADD with an id that has no dash, an empty millisecond part or a
\* part that is neither `*` nor an unsigned decimal number fails with
\* InvalidInput and inserts nothing; it is never taken for a fully
\* automatic id.
C35_MalformedIdRejected ==
    (DidCommand("XADD", "S") /\ Word(done.msg.message, 3) \in MalformedIds)
        => /\ TurnedDown({"InvalidInput"})
           /\ streams = done.before.streams

(***************************************************************************)
(* XRANGE                                                                  *)
(***************************************************************************)
\* the bound a text of XRANGE names: none for `-` and `+`
RangeBound(text) ==
    CASE text \in {"-", "+"} -> None
      [] text = "1-1" -> Some(StreamId(1, 1))
      [] text = "1-2" -> Some(StreamId(1, 2))
      [] text = "2-0" -> Some(StreamId(2, 0))

\* the ids of stream k of store s between the bounds, both included
IdsBetween(s, k, start, end) ==
    IF ~Has(s.streams, k) THEN {}
    ELSE {id \in DOMAIN s.streams[k] :
             /\ start # None => id_le(start[1], id)
             /\ end # None => id_le(id, end[1])}

\* C36: XRANGE(stream, start, end) returns the entries with
\* start <= id <= end and no others, in ascending order of id, a missing
\* bound being no bound; it returns the empty sequence for an absent stream
\* and for start > end, and never changes the store.  The actor lives on to
\* give that reply.
C36_Xrange ==
    /\ actor_alive
    /\ \A k \in {"S", "T"} : DidCommand("XRANGE", k) =>
          LET s == done.before
              wanted == IdsBetween(s, k, RangeBound(Word(done.msg.message, 3)),
                                   RangeBound(Word(done.msg.message, 4)))
              got == done.resp.value.val
          IN /\ done.resp.kind = "Immediate"
             /\ done.resp.value.type = "Array"
             /\ Len(got) = Cardinality(wanted)
             /\ \A i \in 1..Len(got) :
                   \E id \in wanted :
                       got[i] = Array(<<stream_id_into(id),
                                        Array(FlatFields(s.streams[k][id]))>>)
             /\ \A i \in 1..(Len(got) - 1) :
                   \E lower, upper \in wanted :
                       /\ got[i].val[1] = stream_id_into(lower)
                       /\ got[i + 1].val[1] = stream_id_into(upper)
                       /\ id_lt(lower, upper)
             /\ Store = s

(***************************************************************************)
(* A rejected XADD                                                         *)
(***************************************************************************)
\* the last command was an XADD on key k answered with an error
XaddRejected(k) ==
    /\ DidCommand("XADD", k)
    /\ done.resp.kind = "Immediate"
    /\ done.resp.value.type = "SimpleError"

\* C37: a rejected XADD leaves the whole store unchanged: when XADD on key K
\* fails with StreamIdNotGreaterThan0, StreamIdSmallerThanLast or an invalid
\* id hint, the stream map, the string map, the list map and the type tag
\* of K are the same as before the command, whatever K held.
C37_RejectedXaddNoChange ==
    \A k \in {"K", "J", "S"} : XaddRejected(k) =>
        /\ streams = done.before.streams
        /\ keys = done.before.keys
        /\ lists = done.before.lists
        /\ Has(key_types, k) = Has(done.before.key_types, k)
        /\ Has(key_types, k) => key_types[k] = done.before.key_types[k]

(***************************************************************************)
(* Timeouts and pushes on one key                                          *)
(***************************************************************************)
\* the actor's last message was a push on k, which had waiters
PushWithWaiters(k) ==
    /\ DidPush(k)
    /\ QueueOf(done.before, k) # <<>>
    /\ ListWithPush(k) # <<>>

\* waiter id was given the head of the pushed list by the last message
GivenHead(id, k) ==
    /\ done.before.channel[id].receiver
    /\ done.before.channel[id].value = None
    /\ channel[id].value =
           Some(Array(<<BulkString(k), BulkString(Head(ListWithPush(k)))>>))

\* C38 as stated: a BLPOP client answered with the null array never causes a
\* list element to be removed: whatever the order of its timeout, its
\* Cleanup and a push on the key, the pushed list either stays whole or
\* loses its head to a waiter that receives [key, element].
C38_Original ==
    \A k \in BlockedKeys : PushWithWaiters(k) =>
        \/ ListOf(Store, k) = ListWithPush(k)
        \/ /\ ListOf(Store, k) = Tail(ListWithPush(k))
           /\ \E id \in Elems(QueueOf(done.before, k)) : GivenHead(id, k)

\* C38 as amended: a push handled after the timeout of the head waiter and
\* before its Cleanup takes the head of the list and gives it to nobody;
\* with a head waiter that has not timed out the head of the list goes to
\* that waiter.  Nothing else leaves the list.
C38_Amended ==
    \A k \in BlockedKeys : PushWithWaiters(k) =>
        LET c1 == Head(QueueOf(done.before, k)) IN
        /\ ListOf(Store, k) = Tail(ListWithPush(k))
        /\ c1 \notin Elems(QueueOf(Store, k))
        /\ IF done.before.channel[c1].receiver
           THEN /\ GivenHead(c1, k)
                /\ \A id \in (DOMAIN done.before.channel) \ {c1} :
                      channel[id].value = done.before.channel[id].value
           ELSE /\ done.before.channel[c1].value = None
                /\ \A id \in DOMAIN done.before.channel :
                      channel[id].value = done.before.channel[id].value

\* a client was told the null array, and the push handled before its Cleanup
\* lost its element
C38_Witness ==
    \E k \in BlockedKeys : \E c \in Conns :
        /\ PushWithWaiters(k)
        /\ ticket[c].client_id = Head(QueueOf(done.before, k))
        /\ ~done.before.channel[ticket[c].client_id].receiver
        /\ written[c] # <<>>
        /\ written[c][Len(written[c])] = NullArray
        /\ CleanupUnderWay(Some(k), ticket[c].client_id)
        /\ ListOf(Store, k) = <<>>

(***************************************************************************)
(* The actor answers                                                       *)
(***************************************************************************)
\* the actor takes a command off its channel
TakesCommand ==
    /\ mailbox # <<>>
    /\ Head(mailbox).kind = "SendMessage"
    /\ mailbox' = Tail(mailbox)

\* connection c has a command in the channel of the actor
HasCommandQueued(c) ==
    \E i \in 1..Len(mailbox) :
        mailbox[i].kind = "SendMessage" /\ mailbox[i].conn = c

\* C39: the actor never blocks and answers every request: in the step that
\* takes a command off the channel it puts one reply on the one-shot of that
\* command, which held none, and so, the actor being scheduled fairly, every
\* message placed in the channel is eventually taken and every command
\* answered: the channel drains whatever the connection tasks do.
C39_ActorAnswers ==
    /\ [][TakesCommand =>
             /\ reply[Head(mailbox).conn] = None
             /\ reply'[Head(mailbox).conn] # None]_vars
    /\ \A c \in Conns : HasCommandQueued(c) ~> (reply[c] # None)
    /\ (mailbox # <<>>) ~> (mailbox = <<>>)

(***************************************************************************)
(* Every element is handed out once                                        *)
(***************************************************************************)
\* the list of k the actor's last message worked on: with the values of a
\* push added
WholeList(k) == IF DidPush(k) THEN ListWithPush(k) ELSE ListOf(done.before, k)

\* the elements of k the reply of the actor's last message returns
RepliedElems(k) ==
    IF done.resp.kind # "Immediate" THEN <<>>
    ELSE IF DidCommand("LPOP", k)
    THEN CASE done.resp.value.type = "BulkString" -> done.resp.value.val
           [] done.resp.value.type = "Array" ->
                  [i \in 1..Len(done.resp.value.val) |-> done.resp.value.val[i].val[1]]
           [] OTHER -> <<>>
    ELSE IF DidCommand("BLPOP", k) /\ done.resp.value.type = "Array"
    THEN <<done.resp.value.val[2].val[1]>>
    ELSE <<>>

\* the waiters the actor's last message sent an element to
Woken ==
    {id \in DOMAIN done.before.channel :
        done.before.channel[id].value = None /\ channel[id].value # None}

\* the elements of k the actor's last message returned, in a reply or to a
\* waiter
HandedOutElems(k) ==
    RepliedElems(k) \o
    (IF Woken = {} THEN <<>>
     ELSE LET id == CHOOSE id \in Woken : TRUE
          IN IF channel[id].value[1].val[1] = BulkString(k)
             THEN <<channel[id].value[1].val[2].val[1]>> ELSE <<>>)

\* C40: no list element is delivered twice: what a push, an LPOP or a BLPOP
\* on K hands out, in its reply or to a waiter it wakes, are the first
\* elements of the list, each once and to one client, and the list that
\* stays starts behind them, so that no element handed out is handed out
\* again.
C40_NoDoubleDelivery ==
    \A k \in {"K", "J"} :
        DidPush(k) \/ DidCommand("LPOP", k) \/ DidCommand("BLPOP", k) =>
            LET given == HandedOutElems(k) IN
            /\ Cardinality(Woken) <= 1
            /\ Len(given) <= Len(WholeList(k))
            /\ given = SubSeq(WholeList(k), 1, Len(given))
            /\ \E n \in Len(given)..Len(WholeList(k)) :
                  ListOf(Store, k) = SeqTail(WholeList(k), n)

\* a push of several values woke a waiter and left the rest in the list
C40_Witness ==
    \E k \in {"K", "J"} :
        /\ DidPush(k)
        /\ Woken # {}
        /\ Len(HandedOutElems(k)) = 1
        /\ ListOf(Store, k) = Tail(WholeList(k))
        /\ ListOf(Store, k) # <<>>

====
